---- MODULE Spec2Model ----
(***************************************************************************)
(* The signed-request pipeline of satispay-node-sdk: Api (the process-wide *)
(* configuration and the activation exchange), RSAServiceFactory /         *)
(* RSAServiceCrypto (the signer) and Request (header assembly, signing,    *)
(* hand-over to fetch).                                                    *)
(*                                                                         *)
(* Program strings are sequences of chunks (TLA+ strings): a template      *)
(* literal is the concatenation of its pieces, "\n" is always a chunk of   *)
(* its own, and a serialized body is a sequence of single characters.      *)
(*                                                                         *)
(* Spec runs one call of Request at a time over the full range of request  *)
(* inputs, in a runtime whose crypto is there or is not; ApiSpec,          *)
(* FactorySpec, AuthSpec and ConcurrentSpec run the setters of Api, the    *)
(* factory in a runtime that gains and loses crypto, the activation        *)
(* exchange and two concurrent calls of Request, over narrower inputs.     *)
(***************************************************************************)
EXTENDS Naturals, Sequences, FiniteSets

VARIABLES
    env,              \* Api.env
    authservicesUrl,  \* Api.authservicesUrl
    privateKey,       \* Api.privateKey
    publicKey,        \* Api.publicKey
    keyId,            \* Api.keyId
    apiHeaders,       \* the six optional header fields of Api
    instance,         \* RSAServiceFactory.instance
    created,          \* how many RSAServiceCrypto objects were constructed
    probes,           \* how many times isAvailable() was called
    served,           \* the instances RSAServiceFactory.get() has returned
    got,              \* the outcome of the latest direct call of RSAServiceFactory.get()
    cryptoAvailable,  \* whether crypto.generateKeyPairSync is a function in this runtime
    generated,        \* how many key pairs generateKeys() has generated
    calls,            \* the calls of Request.request, by call id
    auths             \* the calls of Api.authenticateWithToken, by call id

\* the fields of Api
apiVars == <<env, authservicesUrl, privateKey, publicKey, keyId, apiHeaders>>

\* the credentials of Api
credentialVars == <<privateKey, publicKey, keyId>>

\* the factory and what was observed of it
factoryVars == <<instance, created, probes, served>>

vars == <<env, authservicesUrl, privateKey, publicKey, keyId, apiHeaders,
          instance, created, probes, served, got, cryptoAvailable, generated,
          calls, auths>>

----------------------------------------------------------------------------
(* Bounds *)

\* The readings of the clock range over 0..MaxClock ticks.
MaxClock == 2

\* Ticks of the clock per second (toUTCString has a resolution of one second).
TicksPerSecond == 2

\* RSAServiceFactory.get() constructs at most MaxCreated objects in a run.
MaxCreated == 2

\* generateKeys() generates at most MaxGenerated key pairs in a run.
MaxGenerated == 2

----------------------------------------------------------------------------
(* JavaScript values *)

\* null, for the string-or-null fields of Api
Null == "<null>"

\* a local that was never assigned
Unread == "<unread>"

\* a test against null alone, which takes '' for a value
TruthyString_NotNull(s) == s # Null

\* if (s) for a string-or-null value
TruthyString(s) == s # Null /\ s # ""

\* the character U+00E9, two bytes in UTF-8
EAcute == "U+00E9"

JsUndefined == [kind |-> "undefined", num |-> 0, str |-> <<>>, props |-> <<>>]
JsNumber(n) == [kind |-> "number", num |-> n, str |-> <<>>, props |-> <<>>]
JsString(s) == [kind |-> "string", num |-> 0, str |-> s, props |-> <<>>]
JsObject(p) == [kind |-> "object", num |-> 0, str |-> <<>>, props |-> p]
JsNull == [kind |-> "null", num |-> 0, str |-> <<>>, props |-> <<>>]

\* a number with a fraction: n thousandths
JsThousandths(n) == [kind |-> "fraction", num |-> n, str |-> <<>>, props |-> <<>>]

\* if (v) for a JavaScript value
Truthy(v) ==
    CASE v.kind = "object" -> TRUE
      [] v.kind = "string" -> v.str # <<>>
      [] v.kind = "number" -> v.num # 0
      [] v.kind = "fraction" -> v.num # 0
      [] OTHER -> FALSE

Digit(d) == <<"0", "1", "2", "3", "4", "5", "6", "7", "8", "9">>[d + 1]

\* Number.prototype.toString(), and a number in a template literal
RECURSIVE Decimal(_)
Decimal(n) == IF n < 10 THEN <<Digit(n)>> ELSE Decimal(n \div 10) \o <<Digit(n % 10)>>

\* the decimals of n thousandths, without the zeros at the end
Decimals(n) ==
    IF n % 1000 = 0 THEN <<>>
    ELSE IF n % 100 = 0 THEN <<".", Digit((n % 1000) \div 100)>>
    ELSE IF n % 10 = 0 THEN <<".", Digit((n % 1000) \div 100), Digit((n % 100) \div 10)>>
    ELSE <<".", Digit((n % 1000) \div 100), Digit((n % 100) \div 10), Digit(n % 10)>>

\* the properties JSON.stringify writes: those whose value is not undefined
Written(p) == SelectSeq(p, LAMBDA e : e.value.kind # "undefined")

\* JSON.stringify of a value (the modelled strings hold no character to escape)
RECURSIVE JSONstringify(_)
RECURSIVE StringifyProps(_)
StringifyProps(p) ==
    IF p = <<>> THEN <<>>
    ELSE <<"\"">> \o Head(p).key \o <<"\"", ":">> \o JSONstringify(Head(p).value)
         \o (IF Tail(p) = <<>> THEN <<>> ELSE <<",">> \o StringifyProps(Tail(p)))
JSONstringify(v) ==
    CASE v.kind = "object" -> <<"{">> \o StringifyProps(Written(v.props)) \o <<"}">>
      [] v.kind = "string" -> <<"\"">> \o v.str \o <<"\"">>
      [] v.kind = "number" -> Decimal(v.num)
      [] v.kind = "fraction" -> Decimal(v.num \div 1000) \o Decimals(v.num)
      [] OTHER -> <<"n", "u", "l", "l">>

\* v?.name: the property of an object under a name, undefined when the object
\* has none and when v is no object
RECURSIVE PropOf(_, _)
PropOf(p, name) ==
    IF p = <<>> THEN JsUndefined
    ELSE IF Head(p).key = name THEN Head(p).value ELSE PropOf(Tail(p), name)
Get(v, name) == IF v.kind = "object" THEN PropOf(v.props, name) ELSE JsUndefined

\* a value in a template literal: `${v}`
TemplateString(v) ==
    CASE v.kind = "string" -> v.str
      [] v.kind = "number" -> Decimal(v.num)
      [] v.kind = "object" -> <<"[object Object]">>
      [] v.kind = "null" -> <<"null">>
      [] OTHER -> <<"undefined">>

\* the parsed body { key_id: kid }
KeyIdBody(kid) == JsObject(<<[key |-> <<"key_id">>, value |-> JsString(<<kid>>)]>>)

\* the parsed body { message, code, wlt } of an error of the API
ErrorBody(message, code, wlt) ==
    JsObject(<<[key |-> <<"message">>, value |-> message],
               [key |-> <<"code">>, value |-> code],
               [key |-> <<"wlt">>, value |-> wlt]>>)

\* the parsed body { message, code } of an error that bears no request id
ShortErrorBody(message, code) ==
    JsObject(<<[key |-> <<"message">>, value |-> message],
               [key |-> <<"code">>, value |-> code]>>)

\* the key ids the server issues in the activation exchange, one for each
\* public key registered with it
IssuedKeyIds == <<"key-G1", "key-G2", "key-G3", "key-G4">>

\* the values the JSON texts of the responses denote
JsonValues ==
    { JsNull,
      JsString(<<"Not Found">>),
      KeyIdBody("key-2"),
      ErrorBody(JsString(<<"Invalid">>), JsString(<<"52">>), JsString(<<"w-1">>)),
      ErrorBody(JsString(<<>>), JsString(<<"52">>), JsString(<<"w-1">>)),
      ErrorBody(JsString(<<"Invalid">>), JsNumber(0), JsString(<<"w-1">>)),
      ShortErrorBody(JsString(<<"Not found">>), JsString(<<"NOT_FOUND">>)) }
    \cup {KeyIdBody(IssuedKeyIds[i]) : i \in DOMAIN IssuedKeyIds}

\* whether JSON.parse(text) returns: the text is the JSON of a value
IsJson(text) == \E v \in JsonValues : JSONstringify(v) = text

\* JSON.parse(text) for a text that is JSON: the value it is the JSON of
JSONparse(text) == CHOOSE v \in JsonValues : JSONstringify(v) = text

\* the UTF-8 encoding of one chunk: U+00E9 is two bytes, an ASCII chunk is itself
Utf8Char(c) == IF c = EAcute THEN <<"0xC3", "0xA9">> ELSE <<c>>

\* the UTF-8 bytes of a string
RECURSIVE Utf8(_)
Utf8(s) == IF s = <<>> THEN <<>> ELSE Utf8Char(Head(s)) \o Utf8(Tail(s))

\* Buffer.byteLength(s)
BufferByteLength(s) == Len(Utf8(s))

\* Buffer.from(crypto.createHash('sha256').update(s).digest()).toString('base64'):
\* an uninterpreted, collision-free hash of the bytes of s
Sha256Base64(s) == <<"base64(sha256(">> \o Utf8(s) \o <<"))">>

\* new Date().toUTCString() for a clock reading of t ticks: whole seconds
toUTCString(t) == <<"UTC second ">> \o Decimal(t \div TicksPerSecond) \o <<" GMT">>

\* String.prototype.toLowerCase on an HTTP method
toLowerCase(m) ==
    CASE m = "GET" -> "get" [] m = "POST" -> "post" [] m = "PUT" -> "put"
      [] m = "PATCH" -> "patch" [] OTHER -> m

\* s.replace(x, ''): the first occurrence of chunk x removed
RECURSIVE replaceFirst(_, _)
replaceFirst(s, x) ==
    IF s = <<>> THEN <<>>
    ELSE IF Head(s) = x THEN Tail(s) ELSE <<Head(s)>> \o replaceFirst(Tail(s), x)

\* a header object with no key
NoHeaders == [n \in {} |-> <<>>]

\* Object.assign(h, g), and { ...h, ...g }
ObjectAssign(h, g) ==
    [n \in DOMAIN h \cup DOMAIN g |-> IF n \in DOMAIN g THEN g[n] ELSE h[n]]

----------------------------------------------------------------------------
(* Api *)

\* the environments of type Environment
Environments == {"production", "staging"}

\* the environments callers pass to setEnv: those of the type and the 'test'
\* environment
AnyEnvironments == Environments \cup {"test"}

\* Api.version
ApiVersion == <<"1", ".", "4", ".", "1">>

\* the value Api.setEnv gives authservicesUrl
EnvUrl(value) ==
    IF value = "production"
    THEN <<"https://", "authservices.satispay.com">>
    ELSE <<"https://", value, ".authservices.satispay.com">>

\* the private keys a caller may configure: absent values, a PKCS8 RSA key and
\* a string that is no private key
GoodKey == "PEM_A"
BadKey == "NOT_A_KEY"
PrivateKeys == {"", GoodKey, BadKey}
KeyIds == {"", "key-1"}

\* the six optional header fields of Api, by the name of the field
HeaderFields ==
    {"platformVersionHeader", "platformHeader", "pluginVersionHeader",
     "pluginNameHeader", "typeHeader", "trackingHeader"}

\* what is outside Api: the factory, the runtime and the calls in flight
restVars == <<instance, created, probes, served, got, cryptoAvailable, generated,
              calls, auths>>

\* setEnv without the branch for production: the URL is always built from the value
setEnv_NoProductionBranch(value) ==
    /\ env' = value
    /\ authservicesUrl' = <<"https://", value, ".authservices.satispay.com">>
    /\ UNCHANGED <<privateKey, publicKey, keyId, apiHeaders>>
    /\ UNCHANGED restVars

setEnv(value) ==
    /\ env' = value
    /\ authservicesUrl' = EnvUrl(value)
    /\ UNCHANGED <<privateKey, publicKey, keyId, apiHeaders>>
    /\ UNCHANGED restVars

setSandbox(value) ==
    setEnv(IF value THEN "staging" ELSE "production")

getEnv == env
getAuthservicesUrl == authservicesUrl
getSandbox == env = "staging"

setPrivateKey(value) ==
    /\ privateKey' = value
    /\ UNCHANGED <<env, authservicesUrl, publicKey, keyId, apiHeaders>>
    /\ UNCHANGED restVars

\* a setPublicKey that assigns the field of the private key
setPublicKey_AssignsPrivateKey(value) ==
    /\ privateKey' = value
    /\ UNCHANGED <<env, authservicesUrl, publicKey, keyId, apiHeaders>>
    /\ UNCHANGED restVars

setPublicKey(value) ==
    /\ publicKey' = value
    /\ UNCHANGED <<env, authservicesUrl, privateKey, keyId, apiHeaders>>
    /\ UNCHANGED restVars

setKeyId(value) ==
    /\ keyId' = value
    /\ UNCHANGED <<env, authservicesUrl, privateKey, publicKey, apiHeaders>>
    /\ UNCHANGED restVars

getPrivateKey == privateKey
getPublicKey == publicKey

\* a getKeyId that returns the field next to keyId
getKeyId_ReturnsPublicKey == publicKey

getKeyId == keyId

\* the setter of one of the six header fields
setHeaderField(field, value) ==
    /\ apiHeaders' = [apiHeaders EXCEPT ![field] = value]
    /\ UNCHANGED <<env, authservicesUrl, privateKey, publicKey, keyId>>
    /\ UNCHANGED restVars

setPlatformVersionHeader(value) == setHeaderField("platformVersionHeader", value)
setPlatformHeader(value) == setHeaderField("platformHeader", value)
setPluginVersionHeader(value) == setHeaderField("pluginVersionHeader", value)
setPluginNameHeader(value) == setHeaderField("pluginNameHeader", value)
setTypeHeader(value) == setHeaderField("typeHeader", value)
setTrackingHeader(value) == setHeaderField("trackingHeader", value)

\* the getter of one of the six header fields
getHeaderField(field) == apiHeaders[field]

----------------------------------------------------------------------------
(* RSAServiceCrypto and RSAServiceFactory *)

\* RSAServiceFactory.instance when it is null; an RSAServiceCrypto object is
\* named by its rank among the objects constructed: 1, 2, ...
NoInstance == 0

\* a get() that does not look at the cache
RSAServiceFactory_get_NoCache(inst, avail, made) ==
    IF avail
    THEN [threw |-> FALSE, returned |-> made + 1, instance |-> made + 1,
          created |-> 1, probed |-> 1]
    ELSE [threw |-> TRUE, returned |-> NoInstance, instance |-> inst,
          created |-> 1, probed |-> 1]

\* a get() that caches the object it constructed before it asks isAvailable()
RSAServiceFactory_get_CachesFirst(inst, avail, made) ==
    IF inst # NoInstance
    THEN [threw |-> FALSE, returned |-> inst, instance |-> inst,
          created |-> 0, probed |-> 0]
    ELSE IF avail
    THEN [threw |-> FALSE, returned |-> made + 1, instance |-> made + 1,
          created |-> 1, probed |-> 1]
    ELSE [threw |-> TRUE, returned |-> NoInstance, instance |-> made + 1,
          created |-> 1, probed |-> 1]

\* RSAServiceFactory.get() with the cached instance inst, when isAvailable()
\* would answer avail and made objects were constructed before: whether it
\* threw, the object it returned, the instance afterwards, and how many
\* objects it constructed and how often it asked isAvailable()
RSAServiceFactory_get(inst, avail, made) ==
    IF inst # NoInstance
    THEN [threw |-> FALSE, returned |-> inst, instance |-> inst,
          created |-> 0, probed |-> 0]
    ELSE IF avail
    THEN [threw |-> FALSE, returned |-> made + 1, instance |-> made + 1,
          created |-> 1, probed |-> 1]
    ELSE [threw |-> TRUE, returned |-> NoInstance, instance |-> inst,
          created |-> 1, probed |-> 1]

\* get() may run: it constructs no object beyond the bound
MayGet == instance # NoInstance \/ created < MaxCreated

\* the factory after a call g of get()
FactoryAfter(g) ==
    /\ instance' = g.instance
    /\ created' = created + g.created
    /\ probes' = probes + g.probed
    /\ served' = IF g.threw THEN served ELSE served \cup {g.returned}

\* the outcome of a direct call of get() before any was made
NotGot == [threw |-> FALSE, returned |-> NoInstance]

\* user code calls RSAServiceFactory.get()
FactoryGet ==
    /\ MayGet
    /\ LET g == RSAServiceFactory_get(instance, cryptoAvailable, created)
       IN  /\ FactoryAfter(g)
           /\ got' = [threw |-> g.threw, returned |-> g.returned]
    /\ UNCHANGED <<apiVars, cryptoAvailable, generated, calls, auths>>

\* the key pairs generateKeys() returns, in the order it generates them
GeneratedPrivateKeys == <<"PEM_G1", "PEM_G2", "PEM_G3", "PEM_G4">>
GeneratedPublicKeys == <<"PUB_G1", "PUB_G2", "PUB_G3", "PUB_G4">>

\* a generateKeys that returns the public key of another pair
generateKeys_Unpaired(n) ==
    [privateKey |-> GeneratedPrivateKeys[n + 1], publicKey |-> GeneratedPublicKeys[n + 2]]

\* RSAServiceCrypto.generateKeys() when n pairs were generated before: a pair
\* never generated before
generateKeys(n) ==
    [privateKey |-> GeneratedPrivateKeys[n + 1], publicKey |-> GeneratedPublicKeys[n + 1]]

\* the private keys crypto can sign with
ValidKeys == {GoodKey} \cup {GeneratedPrivateKeys[i] : i \in DOMAIN GeneratedPrivateKeys}

\* what a signature reveals of its key: the public modulus
KeyTag(k) ==
    IF k = GoodKey THEN "modulus-A"
    ELSE IF \E i \in DOMAIN GeneratedPrivateKeys : GeneratedPrivateKeys[i] = k
    THEN GeneratedPublicKeys[CHOOSE i \in DOMAIN GeneratedPrivateKeys :
                                GeneratedPrivateKeys[i] = k]
    ELSE "modulus-?"

\* one Sign object kept for all calls: it holds what the calls on record wrote
createSign_Shared ==
    IF \E c \in DOMAIN calls : calls[c].nSign > 0
    THEN calls[CHOOSE c \in DOMAIN calls : calls[c].nSign > 0].signature
    ELSE <<>>

\* crypto.createSign('RSA-SHA256'): a Sign object nothing was written to
createSign == <<>>

\* Sign.update(message): the message is written after what was written before
update(written, message) == written \o message

\* a sign that swallows the error of crypto and returns an empty buffer
sign_Swallows(key, message) ==
    IF key \in ValidKeys
    THEN [threw |-> FALSE,
          value |-> <<"RSA-SHA256[", KeyTag(key), "](">>
                    \o Utf8(update(createSign, message)) \o <<")">>]
    ELSE [threw |-> FALSE, value |-> <<>>]

\* RSAServiceCrypto.sign(privateKey, message): the signature bytes over what
\* was written to the Sign object, or the error thrown when crypto cannot use
\* the key
sign(key, message) ==
    IF key \in ValidKeys
    THEN [threw |-> FALSE,
          value |-> <<"RSA-SHA256[", KeyTag(key), "](">>
                    \o Utf8(update(createSign, message)) \o <<")">>]
    ELSE [threw |-> TRUE, value |-> <<>>]

\* Buffer.prototype.toString('base64')
toBase64(bytes) == <<"base64(">> \o bytes \o <<")">>

----------------------------------------------------------------------------
(* Request.signRequest *)

\* a canonical string ended by a newline
CanonicalString_TrailingNewline(method, path, body, url, digest, date) ==
    <<"(request-target)", ": ", toLowerCase(method), " ", path, "\n">>
    \o <<"host", ": ">> \o replaceFirst(url, "https://") \o <<"\n">>
    \o (IF body # <<>>
        THEN <<"content-type", ": ", "application/json", "\n">>
             \o <<"content-length", ": ">> \o Decimal(BufferByteLength(body)) \o <<"\n">>
        ELSE <<>>)
    \o <<"digest", ": ", "SHA-256=">> \o digest \o <<"\n">>
    \o <<"date", ": ">> \o date \o <<"\n">>

\* a canonical string whose content-length counts characters (body.length)
CanonicalString_CharCount(method, path, body, url, digest, date) ==
    <<"(request-target)", ": ", toLowerCase(method), " ", path, "\n">>
    \o <<"host", ": ">> \o replaceFirst(url, "https://") \o <<"\n">>
    \o (IF body # <<>>
        THEN <<"content-type", ": ", "application/json", "\n">>
             \o <<"content-length", ": ">> \o Decimal(Len(body)) \o <<"\n">>
        ELSE <<>>)
    \o <<"digest", ": ", "SHA-256=">> \o digest \o <<"\n">>
    \o <<"date", ": ">> \o date

\* the string signRequest signs
CanonicalString(method, path, body, url, digest, date) ==
    <<"(request-target)", ": ", toLowerCase(method), " ", path, "\n">>
    \o <<"host", ": ">> \o replaceFirst(url, "https://") \o <<"\n">>
    \o (IF body # <<>>
        THEN <<"content-type", ": ", "application/json", "\n">>
             \o <<"content-length", ": ">> \o Decimal(BufferByteLength(body)) \o <<"\n">>
        ELSE <<>>)
    \o <<"digest", ": ", "SHA-256=">> \o digest \o <<"\n">>
    \o <<"date", ": ">> \o date

\* a headers list that does not look at the body
signatureHeaders_Fixed(body) ==
    <<"(request-target)", " ", "host", " ", "content-type", " ",
      "content-length", " ", "digest", " ", "date">>

\* the headers list of the Authorization header
signatureHeaders(body) ==
    IF body # <<>>
    THEN <<"(request-target)", " ", "host", " ", "content-type", " ",
           "content-length", " ", "digest", " ", "date">>
    ELSE <<"(request-target)", " ", "host", " ", "digest", " ", "date">>

\* the value of the Authorization header
AuthorizationValue(kid, list, b64) ==
    <<"Signature keyId=\"", kid, "\", algorithm=\"rsa-sha256\", headers=\"">>
    \o list \o <<"\", signature=\"">> \o b64 \o <<"\"">>

\* the clock reading signRequest formats, clock being the readings successive
\* reads of the clock would give during the call
DateOf(clock) == toUTCString(clock[1])

\* a date line that reads the clock again
DateLineOf_SecondRead(clock) == toUTCString(clock[2])

\* the date of the date line: the captured date
DateLineOf(clock) == DateOf(clock)

\* a digest skipped for an empty body
DigestOf_SkipsEmpty(body) == IF body = <<>> THEN <<>> ELSE Sha256Base64(body)

\* the digest of the body
DigestOf(body) == Sha256Base64(body)

\* the phases in the order of the specification's state machine: the canonical
\* string before the digest
Phases_CanonicalFirst(factoryThrew, signThrew) ==
    <<"CANONICALIZING", "DIGESTING">>
    \o (IF factoryThrew THEN <<>>
        ELSE IF signThrew THEN <<"SIGNING">> ELSE <<"SIGNING", "ASSEMBLED">>)

\* the phases signRequest goes through, in the order of its statements: the
\* digest is computed, the canonical string is built (it holds the digest),
\* the signer is fetched and called, and the Authorization header is put
\* together; a throw of the factory or of the signer ends the run
Phases(factoryThrew, signThrew) ==
    <<"DIGESTING", "CANONICALIZING">>
    \o (IF factoryThrew THEN <<>>
        ELSE IF signThrew THEN <<"SIGNING">> ELSE <<"SIGNING", "ASSEMBLED">>)

\* Request.signRequest(options): the headers it returns or the error it
\* throws, the string it signed, its call of the factory, the phases it went
\* through, and how often it read the clock, asked the factory and called the
\* signer
signRequest(method, path, body, url, key, kid, clock, inst, avail, made) ==
    LET date == DateOf(clock)
        digest == DigestOf(body)
        signature == CanonicalString(method, path, body, url, digest, DateLineOf(clock))
        factory == RSAServiceFactory_get(inst, avail, made)
        signed == sign(key, signature)
        headers == [n \in {"Date", "Digest", "Authorization"} |->
                       CASE n = "Date" -> date
                         [] n = "Digest" -> <<"SHA-256=">> \o digest
                         [] OTHER -> AuthorizationValue(kid, signatureHeaders(body),
                                                        toBase64(signed.value))]
    IN  IF factory.threw
        THEN [threw |-> TRUE, error |-> "No RSA service available.", headers |-> NoHeaders,
              signature |-> signature, factory |-> factory,
              phases |-> Phases(TRUE, FALSE),
              nClock |-> 1, nFactory |-> 1, nSign |-> 0]
        ELSE IF signed.threw
        THEN [threw |-> TRUE, error |-> "Signing failed", headers |-> NoHeaders,
              signature |-> signature, factory |-> factory,
              phases |-> Phases(FALSE, TRUE),
              nClock |-> 1, nFactory |-> 1, nSign |-> 1]
        ELSE [threw |-> FALSE, error |-> "", headers |-> headers,
              signature |-> signature, factory |-> factory,
              phases |-> Phases(FALSE, FALSE),
              nClock |-> 1, nFactory |-> 1, nSign |-> 1]

----------------------------------------------------------------------------
(* Request.request *)

\* Request.userAgentName
userAgentName == "SatispayGBusinessApiNodeSdk"

\* one headers object kept for all calls: it holds what the callers of the
\* calls on record gave
InitialHeaders_Shared(callerHeaders) ==
    LET others == {c \in DOMAIN calls : calls[c].pc # "idle"}
        names == UNION {DOMAIN calls[c].headers : c \in others}
        shared == [n \in names |->
                      calls[CHOOSE c \in others : n \in DOMAIN calls[c].headers].headers[n]]
    IN  ObjectAssign(ObjectAssign([n \in {"Accept", "User-Agent"} |->
                                      IF n = "Accept" THEN <<"application/json">>
                                      ELSE <<userAgentName, "/">> \o ApiVersion],
                                  shared),
                     callerHeaders)

\* the headers request starts from: the defaults, overridden by the caller's
InitialHeaders(callerHeaders) ==
    ObjectAssign([n \in {"Accept", "User-Agent"} |->
                     IF n = "Accept" THEN <<"application/json">>
                     ELSE <<userAgentName, "/">> \o ApiVersion],
                 callerHeaders)

\* the header request sends one of the six header fields of Api under
HeaderName(field) ==
    CASE field = "platformHeader" -> "x-satispay-os"
      [] field = "platformVersionHeader" -> "x-satispay-osv"
      [] field = "pluginVersionHeader" -> "x-satispay-appv"
      [] field = "pluginNameHeader" -> "x-satispay-appn"
      [] field = "typeHeader" -> "x-satispay-devicetype"
      [] OTHER -> "x-satispay-tracking-code"

\* the headers once the truthy ones of the six header fields read are set
WithApiHeaders(headers, fields) ==
    LET set == {f \in HeaderFields : TruthyString(fields[f])}
    IN  ObjectAssign(headers,
            [n \in {HeaderName(f) : f \in set} |->
                <<fields[CHOOSE f \in set : HeaderName(f) = n]>>])

\* the serialized body: '' unless the caller's body is truthy
SerializedBody(optBody) == IF Truthy(optBody) THEN JSONstringify(optBody) ELSE <<>>

\* the headers once the body is serialized
WithContentHeaders(headers, optBody) ==
    IF Truthy(optBody)
    THEN ObjectAssign(headers,
            [n \in {"Content-Type", "Content-Length"} |->
                IF n = "Content-Type" THEN <<"application/json">>
                ELSE Decimal(BufferByteLength(SerializedBody(optBody)))])
    ELSE headers

\* a test that signs when either credential is there
ShouldSign_Either(optSign, key, kid) == optSign /\ (TruthyString(key) \/ TruthyString(kid))

\* whether request signs: signing was asked for and both credentials are truthy
ShouldSign(optSign, key, kid) == optSign /\ TruthyString(key) /\ TruthyString(kid)

\* a merge in which the headers built before signing win
WithSignHeaders_CallerWins(headers, signHeaders) == ObjectAssign(signHeaders, headers)

\* the headers after signing: the signer's headers assigned over the others
WithSignHeaders(headers, signHeaders) == ObjectAssign(headers, signHeaders)

\* a fetchOptions.body set for every method
FetchBody_AnyMethod(body, method) ==
    IF body # <<>>
    THEN [defined |-> TRUE, text |-> body]
    ELSE [defined |-> FALSE, text |-> <<>>]

\* fetchOptions.body: set for a non-empty body and a method other than GET
FetchBody(body, method) ==
    IF body # <<>> /\ method # "GET"
    THEN [defined |-> TRUE, text |-> body]
    ELSE [defined |-> FALSE, text |-> <<>>]

\* an agent for every environment but production
WantsAgent_NotProduction(e, isNode) == e # "production" /\ isNode

\* whether request attaches the agent that does not verify certificates
WantsAgent(e, isNode) == e = "staging" /\ isNode

NoFetchOptions ==
    [method |-> "", headers |-> NoHeaders, body |-> [defined |-> FALSE, text |-> <<>>],
     agent |-> FALSE]

\* no response: fetch has not settled
NoResponse == [failed |-> FALSE, status |-> 0, text |-> <<>>, body |-> JsUndefined]

\* parsedData: JSON.parse(responseText), or responseText when that throws
parsedData(responseText) ==
    IF IsJson(responseText) THEN JSONparse(responseText) ELSE JsString(responseText)

\* what request holds of a response r once fetch and response.text() have
\* settled: the status, the text and the parsed data
Received(r) ==
    [failed |-> r.failed, status |-> r.status, text |-> r.text,
     body |-> parsedData(r.text)]

\* errorData?.message && errorData?.code && errorData?.wlt
IsApiError(errorData) ==
    /\ Truthy(Get(errorData, <<"message">>))
    /\ Truthy(Get(errorData, <<"code">>))
    /\ Truthy(Get(errorData, <<"wlt">>))

\* the message of the Error request throws for a status that is not 2xx
StatusErrorMessage(status, errorData) ==
    IF IsApiError(errorData)
    THEN TemplateString(Get(errorData, <<"message">>)) \o <<", request id: ">>
         \o TemplateString(Get(errorData, <<"wlt">>))
    ELSE <<"HTTP status is not 2xx: ">> \o Decimal(status)

\* response.status >= 200 && response.status <= 299
isResponseOk(status) == status >= 200 /\ status <= 299

\* the arguments of a resource wrapper: the headers and the body its caller
\* gave, and the caller's body as it is after the wrapper has run
NoArgs == [headers |-> NoHeaders, body |-> JsUndefined, bodyAfter |-> JsUndefined]

\* the promise of a resource wrapper before it settles
NoOutcome == [pc |-> "pending", value |-> JsUndefined, error |-> "", message |-> <<>>]

\* a call slot with no call in it
IdleCall ==
    [pc |-> "idle", method |-> "", path |-> "", body |-> JsUndefined, headers |-> NoHeaders,
     sign |-> FALSE, serialized |-> <<>>, privateKey |-> Unread, keyId |-> Unread,
     apiHeaders |-> [f \in HeaderFields |-> Unread],
     signature |-> <<>>, phases |-> <<>>,
     nClock |-> 0, nFactory |-> 0, nSign |-> 0,
     url |-> <<>>, fetchOptions |-> NoFetchOptions, fetchCalls |-> 0, error |-> "",
     message |-> <<>>, response |-> NoResponse,
     wrapper |-> "", args |-> NoArgs, outcome |-> NoOutcome]

\* the call Request.request starts: suspended on the import of Api
Requested(method, path, options) ==
    [IdleCall EXCEPT !.pc = "importing", !.phases = <<"UNSIGNED">>,
                     !.method = method, !.path = path,
                     !.body = options.body, !.headers = options.headers,
                     !.sign = options.sign]

\* Request.request is called: it suspends on the import of Api
request(c, method, path, options) ==
    /\ calls[c].pc = "idle"
    /\ calls' = [calls EXCEPT ![c] = Requested(method, path, options)]
    /\ UNCHANGED <<apiVars, factoryVars, got, cryptoAvailable, generated, auths>>

get(c, path, options) == request(c, "GET", path, options)
post(c, path, options) == request(c, "POST", path, options)
put(c, path, options) == request(c, "PUT", path, options)
patch(c, path, options) == request(c, "PATCH", path, options)

\* the call after the synchronous run of request from the resumption after the
\* import of Api up to its next suspension: the import of https, the call of
\* fetch, or the throw of signRequest. clock gives the readings of the clock
\* during the run, isNode whether the runtime is Node.js.
Assembled(call, clock, isNode) ==
    LET headers0 == InitialHeaders(call.headers)
        fields == [f \in HeaderFields |-> getHeaderField(f)]
        headersA == WithApiHeaders(headers0, fields)
        body == SerializedBody(call.body)
        headers1 == WithContentHeaders(headersA, call.body)
        key == IF call.sign THEN getPrivateKey ELSE Unread
        kid == IF call.sign THEN getKeyId ELSE Unread
        signing == ShouldSign(call.sign, key, kid)
        s == signRequest(call.method, call.path, body, getAuthservicesUrl, key, kid,
                         clock, instance, cryptoAvailable, created)
        headers2 == IF signing THEN WithSignHeaders(headers1, s.headers) ELSE headers1
        read == [call EXCEPT !.serialized = body, !.privateKey = key, !.keyId = kid,
                             !.apiHeaders = fields]
        signedCall == IF signing
                      THEN [read EXCEPT !.signature = s.signature,
                                        !.phases = @ \o s.phases, !.nClock = s.nClock,
                                        !.nFactory = s.nFactory, !.nSign = s.nSign]
                      ELSE read
        options == [method |-> call.method, headers |-> headers2,
                    body |-> FetchBody(body, call.method), agent |-> FALSE]
    IN  IF signing /\ s.threw
        THEN [signedCall EXCEPT !.pc = "rejected", !.error = s.error]
        ELSE IF WantsAgent(getEnv, isNode)
        THEN [signedCall EXCEPT !.pc = "https", !.url = getAuthservicesUrl \o <<call.path>>,
                                !.fetchOptions = options]
        ELSE [signedCall EXCEPT !.pc = "fetching", !.url = getAuthservicesUrl \o <<call.path>>,
                                !.fetchOptions = options, !.fetchCalls = @ + 1]

\* the import of Api resolves and request runs to its next suspension
Assemble(c) ==
    /\ calls[c].pc = "importing"
    /\ \E t1 \in 0..MaxClock, t2 \in 0..MaxClock, isNode \in BOOLEAN :
          /\ t1 <= t2
          /\ IF ShouldSign(calls[c].sign, getPrivateKey, getKeyId)
             THEN /\ MayGet
                  /\ FactoryAfter(RSAServiceFactory_get(instance, cryptoAvailable, created))
             ELSE UNCHANGED factoryVars
          /\ calls' = [calls EXCEPT ![c] = Assembled(calls[c], <<t1, t2>>, isNode)]
    /\ UNCHANGED <<apiVars, got, cryptoAvailable, generated, auths>>

\* an import of https after which the URL is put together anew
ImportHttps_ReadsUrlAgain(c) ==
    /\ calls[c].pc = "https"
    /\ calls' = [calls EXCEPT ![c] =
                    [@ EXCEPT !.pc = "fetching", !.fetchOptions.agent = TRUE,
                              !.url = getAuthservicesUrl \o <<calls[c].path>>,
                              !.fetchCalls = @ + 1]]
    /\ UNCHANGED <<apiVars, factoryVars, got, cryptoAvailable, generated, auths>>

\* the import of https resolves: the agent is attached and fetch is called
ImportHttps(c) ==
    /\ calls[c].pc = "https"
    /\ calls' = [calls EXCEPT ![c] =
                    [@ EXCEPT !.pc = "fetching", !.fetchOptions.agent = TRUE,
                              !.fetchCalls = @ + 1]]
    /\ UNCHANGED <<apiVars, factoryVars, got, cryptoAvailable, generated, auths>>

\* a request that calls fetch again when fetch or the response failed
Settle_Retries(c, r) ==
    /\ calls[c].pc = "fetching"
    /\ calls' = [calls EXCEPT ![c] =
                    IF r.failed \/ ~isResponseOk(r.status)
                    THEN (IF calls[c].fetchCalls < 2
                          THEN [@ EXCEPT !.fetchCalls = @ + 1]
                          ELSE [@ EXCEPT !.pc = "rejected", !.error = "fetch failed"])
                    ELSE [@ EXCEPT !.pc = "resolved", !.response = Received(r)]]
    /\ UNCHANGED <<apiVars, factoryVars, got, cryptoAvailable, generated, auths>>

\* a request that resolves for every status below 400
Settle_Below400(c, r) ==
    /\ calls[c].pc = "fetching"
    /\ calls' = [calls EXCEPT ![c] =
                    IF r.failed
                    THEN [@ EXCEPT !.pc = "rejected", !.error = "fetch failed",
                                   !.response = IF r.status = 0 THEN @ ELSE Received(r)]
                    ELSE IF r.status >= 400
                    THEN [@ EXCEPT !.pc = "rejected", !.error = "HTTP status is not 2xx",
                                   !.message = StatusErrorMessage(r.status, parsedData(r.text)),
                                   !.response = Received(r)]
                    ELSE [@ EXCEPT !.pc = "resolved", !.response = Received(r)]]
    /\ UNCHANGED <<apiVars, factoryVars, got, cryptoAvailable, generated, auths>>

\* fetch and response.text() settle with r. One of them rejects, and the call
\* rejects with its error (a response whose text could not be read is on
\* record with its status). Or the response has a status that is not 2xx, and
\* the call rejects with the error of the status. Or the call resolves with
\* the parsed data.
Settle(c, r) ==
    /\ calls[c].pc = "fetching"
    /\ calls' = [calls EXCEPT ![c] =
                    IF r.failed
                    THEN [@ EXCEPT !.pc = "rejected", !.error = "fetch failed",
                                   !.response = IF r.status = 0 THEN @ ELSE Received(r)]
                    ELSE IF ~isResponseOk(r.status)
                    THEN [@ EXCEPT !.pc = "rejected", !.error = "HTTP status is not 2xx",
                                   !.message = StatusErrorMessage(r.status, parsedData(r.text)),
                                   !.response = Received(r)]
                    ELSE [@ EXCEPT !.pc = "resolved", !.response = Received(r)]]
    /\ UNCHANGED <<apiVars, factoryVars, got, cryptoAvailable, generated, auths>>

\* the call is the one a call of authenticateWithToken awaits
Awaited(c) == \E a \in DOMAIN auths : auths[a].pc = "awaiting" /\ auths[a].call = c

\* the caller takes the result of a settled call (of the resource wrapper that
\* made the call, when one did); its slot is free again
Return(c) ==
    /\ calls[c].pc \in {"resolved", "rejected"}
    /\ ~Awaited(c)
    /\ calls[c].wrapper # "" => calls[c].outcome.pc # "pending"
    /\ calls' = [calls EXCEPT ![c] = IdleCall]
    /\ UNCHANGED <<apiVars, factoryVars, got, cryptoAvailable, generated, auths>>

----------------------------------------------------------------------------
(* Api.authenticateWithToken *)

\* the path of the activation exchange
AuthenticationPath == "/g_business/v1/authentication_keys"

\* a body that carries the whole key pair
ActivationBody_WholePair(keys, token) ==
    JsObject(<<[key |-> <<"public_key">>, value |-> JsString(<<keys.publicKey>>)],
               [key |-> <<"private_key">>, value |-> JsString(<<keys.privateKey>>)],
               [key |-> <<"token">>, value |-> JsString(<<token>>)]>>)

\* the body of the activation exchange
ActivationBody(keys, token) ==
    JsObject(<<[key |-> <<"public_key">>, value |-> JsString(<<keys.publicKey>>)],
               [key |-> <<"token">>, value |-> JsString(<<token>>)]>>)

\* the options authenticateWithToken gives Request.post: a body and nothing
\* else, so no headers and no signing
ActivationOptions(keys, token) ==
    [headers |-> NoHeaders, body |-> ActivationBody(keys, token), sign |-> FALSE]

NoKeys == [privateKey |-> Null, publicKey |-> Null]

\* new ApiAuthentication(privateKey, publicKey, keyId)
ApiAuthentication(priv, pub, kid) == [privateKey |-> priv, publicKey |-> pub, keyId |-> kid]

\* a slot with no call of authenticateWithToken in it
IdleAuth ==
    [pc |-> "idle", token |-> "", keys |-> NoKeys, call |-> 0,
     result |-> ApiAuthentication(Null, Null, Null), error |-> ""]

\* authenticateWithToken(token) is called: it asks the factory, generates a key
\* pair and calls Request.post (in the call slot c), which it awaits; or the
\* factory throws and it rejects
authenticateWithToken(a, token, c) ==
    /\ auths[a].pc = "idle"
    /\ calls[c].pc = "idle"
    /\ MayGet
    /\ generated < MaxGenerated
    /\ LET g == RSAServiceFactory_get(instance, cryptoAvailable, created)
           keys == generateKeys(generated)
       IN  /\ FactoryAfter(g)
           /\ IF g.threw
              THEN /\ auths' = [auths EXCEPT ![a] =
                                   [IdleAuth EXCEPT !.pc = "rejected", !.token = token,
                                                    !.error = "No RSA service available."]]
                   /\ UNCHANGED <<generated, calls>>
              ELSE /\ generated' = generated + 1
                   /\ calls' = [calls EXCEPT ![c] =
                                   Requested("POST", AuthenticationPath,
                                             ActivationOptions(keys, token))]
                   /\ auths' = [auths EXCEPT ![a] =
                                   [IdleAuth EXCEPT !.pc = "awaiting", !.token = token,
                                                    !.keys = keys, !.call = c]]
    /\ UNCHANGED <<apiVars, got, cryptoAvailable>>

\* requestResult.key_id throws a TypeError: requestResult is null or undefined
KeyIdThrows(requestResult) == requestResult.kind \in {"null", "undefined"}

\* requestResult.key_id, for a requestResult that is an object with a string
\* under key_id
KeyIdOf(requestResult) ==
    LET p == requestResult.props
        i == CHOOSE k \in 1..Len(p) : p[k].key = <<"key_id">>
    IN  p[i].value.str[1]

\* what the resumption of authenticateWithToken does to Api and to its own
\* call. After a rejected post the call rejects with the error of the post and
\* nothing is assigned. After a resolved post privateKey and publicKey are
\* assigned the generated keys; then requestResult.key_id is evaluated: it is
\* assigned to keyId and the call resolves with an ApiAuthentication, or it
\* throws and the call rejects with keyId as it was.
Resumed(a) ==
    LET awaited == calls[auths[a].call]
        keys == auths[a].keys
    IN  IF awaited.pc = "rejected"
        THEN /\ UNCHANGED credentialVars
             /\ auths' = [auths EXCEPT ![a] =
                             [@ EXCEPT !.pc = "rejected", !.error = awaited.error]]
        ELSE IF KeyIdThrows(awaited.response.body)
        THEN /\ privateKey' = keys.privateKey
             /\ publicKey' = keys.publicKey
             /\ UNCHANGED keyId
             /\ auths' = [auths EXCEPT ![a] =
                             [@ EXCEPT !.pc = "rejected", !.error = "TypeError"]]
        ELSE /\ privateKey' = keys.privateKey
             /\ publicKey' = keys.publicKey
             /\ keyId' = KeyIdOf(awaited.response.body)
             /\ auths' = [auths EXCEPT ![a] =
                             [@ EXCEPT !.pc = "resolved",
                                       !.result = ApiAuthentication(keys.privateKey,
                                                     keys.publicKey,
                                                     KeyIdOf(awaited.response.body))]]

\* the post authenticateWithToken awaits has settled: authenticateWithToken
\* resumes and settles
authenticateWithToken_resumes(a) ==
    /\ auths[a].pc = "awaiting"
    /\ calls[auths[a].call].pc \in {"resolved", "rejected"}
    /\ Resumed(a)
    /\ calls' = [calls EXCEPT ![auths[a].call] = IdleCall]
    /\ UNCHANGED <<env, authservicesUrl, apiHeaders, factoryVars, got, cryptoAvailable,
                   generated>>

\* the caller takes the result of a settled authenticateWithToken
authenticateWithToken_returns(a) ==
    /\ auths[a].pc \in {"resolved", "rejected"}
    /\ auths' = [auths EXCEPT ![a] = IdleAuth]
    /\ UNCHANGED <<apiVars, factoryVars, got, cryptoAvailable, generated, calls>>

----------------------------------------------------------------------------
(* The resource wrappers: Payment, Consumer, DailyClosure,                 *)
(* PreAuthorizedPaymentToken, Report and Session                           *)

\* options that ask for no signing
WrapperOptions_Unsigned(headers, body) == [headers |-> headers, body |-> body, sign |-> FALSE]

\* the options a wrapper gives Request: { headers, body, sign: true }, and
\* { headers, sign: true } where body is undefined
WrapperOptions(headers, body) == [headers |-> headers, body |-> body, sign |-> TRUE]

\* a wrapper calls Request.request (through get, post, put or patch) and
\* returns its promise: the call is on record with the wrapper that made it
\* and the arguments of the wrapper
Called(c, wrapper, args, method, path, options) ==
    /\ calls[c].pc = "idle"
    /\ calls' = [calls EXCEPT ![c] =
                    [Requested(method, path, options) EXCEPT !.wrapper = wrapper,
                                                             !.args = args]]
    /\ UNCHANGED <<apiVars, factoryVars, got, cryptoAvailable, generated, auths>>

\* the promise of a wrapper once the promise of its call has settled: it has
\* the state, the value and the error of the call
Adopted(call) ==
    [pc |-> call.pc,
     value |-> IF call.pc = "resolved" THEN call.response.body ELSE JsUndefined,
     error |-> call.error, message |-> call.message]

\* the promise a wrapper returned settles as the promise of its call did
WrapperSettles(c) ==
    /\ calls[c].wrapper # ""
    /\ calls[c].pc \in {"resolved", "rejected"}
    /\ calls[c].outcome.pc = "pending"
    /\ calls' = [calls EXCEPT ![c].outcome = Adopted(calls[c])]
    /\ UNCHANGED <<apiVars, factoryVars, got, cryptoAvailable, generated, auths>>

\* 'name' in body
HasProp(p, name) == \E i \in 1..Len(p) : p[i].key = name

\* o[name] = value on the properties of an object: the value is replaced
\* where the name is, and the property is added at the end where it is not
SetProp(p, name, value) ==
    IF HasProp(p, name)
    THEN [i \in 1..Len(p) |-> IF p[i].key = name THEN [key |-> name, value |-> value]
                                ELSE p[i]]
    ELSE Append(p, [key |-> name, value |-> value])

\* delete o[name]
DeleteProp(p, name) == SelectSeq(p, LAMBDA e : e.key # name)

\* a conversion that cuts the decimals off
MathRound100_Truncates(v) ==
    IF v.kind = "fraction" THEN v.num \div 10 ELSE v.num * 100

\* Math.round(v * 100) for a number v: of thousandths, the tenth rounded half
\* up (the double nearest to a decimal that ends in 5 thousandths may lie on
\* either side of the half, so such amounts are not among the inputs)
MathRound100(v) ==
    IF v.kind = "fraction" THEN (v.num + 5) \div 10 ELSE v.num * 100

\* processedBody of Payment.create and Payment.update: a copy of the body in
\* which a defined amount (euros) is replaced by amount_unit (cents); and the
\* caller's body afterwards
Processed(body) ==
    LET amount == PropOf(body.props, <<"amount">>)
    IN  IF HasProp(body.props, <<"amount">>) /\ amount.kind # "undefined"
        THEN [passed |-> JsObject(DeleteProp(SetProp(body.props, <<"amount_unit">>,
                                                     JsNumber(MathRound100(amount))),
                                             <<"amount">>)),
              after |-> body]
        ELSE [passed |-> body, after |-> body]

\* what a wrapper keeps of its arguments
Args(headers, body, after) == [headers |-> headers, body |-> body, bodyAfter |-> after]

\* URLSearchParams.toString() of parameters that need no escaping
RECURSIVE QueryString(_)
QueryString(q) ==
    IF q = <<>> THEN ""
    ELSE Head(q).key \o "=" \o Head(q).value
         \o (IF Tail(q) = <<>> THEN "" ELSE "&" \o QueryString(Tail(q)))

\* query[name] for a parameter that is a string, '' when it is not there
QueryValue(q, name) ==
    IF \E i \in 1..Len(q) : q[i].key = name
    THEN q[CHOOSE i \in 1..Len(q) : q[i].key = name].value
    ELSE ""

\* Payment.apiPath
PaymentApiPath == "/g_business/v1/payments"

Payment_create(c, body, headers) ==
    Called(c, "Payment.create", Args(headers, body, Processed(body).after),
           "POST", PaymentApiPath, WrapperOptions(headers, Processed(body).passed))

Payment_get(c, id, headers) ==
    Called(c, "Payment.get", Args(headers, JsUndefined, JsUndefined),
           "GET", PaymentApiPath \o "/" \o id, WrapperOptions(headers, JsUndefined))

Payment_all(c, query, headers) ==
    Called(c, "Payment.all", Args(headers, JsUndefined, JsUndefined),
           "GET",
           IF Len(query) > 0 THEN PaymentApiPath \o "?" \o QueryString(query)
           ELSE PaymentApiPath,
           WrapperOptions(headers, JsUndefined))

Payment_update(c, id, body, headers) ==
    Called(c, "Payment.update", Args(headers, body, Processed(body).after),
           "PUT", PaymentApiPath \o "/" \o id,
           WrapperOptions(headers, Processed(body).passed))

\* Consumer.apiPath
ConsumerApiPath == "/g_business/v1/consumers"

Consumer_get(c, phoneNumber, headers) ==
    Called(c, "Consumer.get", Args(headers, JsUndefined, JsUndefined),
           "GET", ConsumerApiPath \o "/" \o phoneNumber, WrapperOptions(headers, JsUndefined))

\* DailyClosure.apiPath
DailyClosureApiPath == "/g_business/v1/daily_closure"

\* DateUtils.formatToYYYYMMDD(new Date()): the day of the call
Today == "20261103"

\* DailyClosure.get for a date that is a string, '' when it is not given
DailyClosure_get(c, date, query, headers) ==
    LET dateString == IF date = "" THEN Today ELSE date
        path == DailyClosureApiPath \o "/" \o dateString
    IN  Called(c, "DailyClosure.get", Args(headers, JsUndefined, JsUndefined),
               "GET",
               IF Len(query) > 0 THEN path \o "?" \o QueryString(query) ELSE path,
               WrapperOptions(headers, JsUndefined))

\* PreAuthorizedPaymentToken.apiPath
TokenApiPath == "/g_business/v1/pre_authorized_payment_tokens"

PreAuthorizedPaymentToken_create(c, body, headers) ==
    Called(c, "PreAuthorizedPaymentToken.create", Args(headers, body, body),
           "POST", TokenApiPath, WrapperOptions(headers, body))

PreAuthorizedPaymentToken_get(c, id, headers) ==
    Called(c, "PreAuthorizedPaymentToken.get", Args(headers, JsUndefined, JsUndefined),
           "GET", TokenApiPath \o "/" \o id, WrapperOptions(headers, JsUndefined))

PreAuthorizedPaymentToken_update(c, id, body, headers) ==
    Called(c, "PreAuthorizedPaymentToken.update", Args(headers, body, body),
           "PUT", TokenApiPath \o "/" \o id, WrapperOptions(headers, body))

Report_create(c, body, headers) ==
    Called(c, "Report.create", Args(headers, body, body),
           "POST", "/g_business/v1/reports", WrapperOptions(headers, body))

Report_all(c, query, headers) ==
    LET limit == QueryValue(query, "limit")
        startingAfter == QueryValue(query, "starting_after")
        queryString ==
            QueryString((IF limit # "" THEN <<[key |-> "limit", value |-> limit]>>
                         ELSE <<>>)
                        \o (IF startingAfter # ""
                            THEN <<[key |-> "starting_after", value |-> startingAfter]>>
                            ELSE <<>>))
    IN  Called(c, "Report.all", Args(headers, JsUndefined, JsUndefined),
               "GET",
               IF queryString # "" THEN "/g_business/v1/reports?" \o queryString
               ELSE "/g_business/v1/reports",
               WrapperOptions(headers, JsUndefined))

Report_get(c, id, headers) ==
    Called(c, "Report.get", Args(headers, JsUndefined, JsUndefined),
           "GET", "/g_business/v1/reports/" \o id, WrapperOptions(headers, JsUndefined))

Session_open(c, body, headers) ==
    Called(c, "Session.open", Args(headers, body, body),
           "POST", "/g_business/v1/sessions", WrapperOptions(headers, body))

Session_get(c, id, headers) ==
    Called(c, "Session.get", Args(headers, JsUndefined, JsUndefined),
           "GET", "/g_business/v1/sessions/" \o id, WrapperOptions(headers, JsUndefined))

Session_update(c, id, body, headers) ==
    Called(c, "Session.update", Args(headers, body, body),
           "PATCH", "/g_business/v1/sessions/" \o id, WrapperOptions(headers, body))

Session_createEvent(c, id, body, headers) ==
    Called(c, "Session.createEvent", Args(headers, body, body),
           "POST", "/g_business/v1/sessions/" \o id \o "/events",
           WrapperOptions(headers, body))

----------------------------------------------------------------------------
(* The environment *)

\* the runtime gains or loses crypto.generateKeyPairSync
SetCryptoAvailable(b) ==
    /\ cryptoAvailable # b
    /\ cryptoAvailable' = b
    /\ UNCHANGED <<apiVars, factoryVars, got, generated, calls, auths>>

----------------------------------------------------------------------------
(* The inputs *)

Paths == {"/g_business/v1/payments", "/g_business/v1/payments?limit=1"}

Bodies ==
    { JsUndefined,
      JsNumber(0),
      JsObject(<<[key |-> <<"f", "l", "o", "w">>, value |-> JsString(<<"M">>)]>>),
      JsObject(<<[key |-> <<"n">>, value |-> JsString(<<EAcute>>)],
                 [key |-> <<"a">>, value |-> JsNumber(100)]>>) }

CallerHeaders ==
    { NoHeaders,
      [n \in {"X-Custom-Header", "Date", "Digest", "Authorization", "date"} |->
          <<"caller's ", n>>] }

Options == [headers : CallerHeaders, body : Bodies, sign : BOOLEAN]

\* the calls one caller makes, one after the other
CallIds == {1}

\* the calls of authenticateWithToken one caller makes, one after the other
AuthIds == {1}

\* fetch rejects: the transport failed
FetchFailure == [failed |-> TRUE, status |-> 0, text |-> <<>>]

\* fetch resolves with a response of a status and response.text() rejects
TextFailure(status) == [failed |-> TRUE, status |-> status, text |-> <<>>]

\* fetch resolves with a response of a status and a text
TextResponse(status, text) == [failed |-> FALSE, status |-> status, text |-> text]

\* fetch resolves with a response of a status whose text is the JSON of body
Response(status, body) == TextResponse(status, JSONstringify(body))

\* what fetch settles with: a failure of the transport, a 200 with a key id
\* and a 404 with a text
Responses ==
    { FetchFailure,
      Response(200, KeyIdBody("key-2")),
      Response(404, JsString(<<"Not Found">>)) }

----------------------------------------------------------------------------
(* The specification: one call of Request at a time *)

\* the state after the modules are loaded, with call slots ids and a runtime
\* whose crypto is as one of avails says
InitOver(ids, avails) ==
    /\ env = "production"
    /\ authservicesUrl = <<"https://", "authservices.satispay.com">>
    /\ privateKey = Null
    /\ publicKey = Null
    /\ keyId = Null
    /\ apiHeaders = [f \in HeaderFields |-> Null]
    /\ instance = NoInstance
    /\ created = 0
    /\ probes = 0
    /\ served = {}
    /\ got = NotGot
    /\ cryptoAvailable \in avails
    /\ generated = 0
    /\ calls = [c \in ids |-> IdleCall]
    /\ auths = [a \in AuthIds |-> IdleAuth]

Init == InitOver(CallIds, BOOLEAN)

Next ==
    \/ \E v \in Environments : setEnv(v)
    \/ \E b \in BOOLEAN : setSandbox(b)
    \/ \E k \in PrivateKeys : setPrivateKey(k)
    \/ \E k \in KeyIds : setKeyId(k)
    \/ \E c \in CallIds, p \in Paths, o \in Options :
          get(c, p, o) \/ post(c, p, o) \/ put(c, p, o) \/ patch(c, p, o)
    \/ \E c \in CallIds : Assemble(c)
    \/ \E c \in CallIds : ImportHttps(c)
    \/ \E c \in CallIds, r \in Responses : Settle(c, r)
    \/ \E c \in CallIds : Return(c)

Spec == Init /\ [][Next]_vars

----------------------------------------------------------------------------
(* The specification of the setters of Api *)

\* the public keys and header values a caller may configure
PublicKeys == {"PUB_A", "PUB_B"}
HeaderValues == {"1.0.0", "2.0.0"}

ApiInit == InitOver(CallIds, {TRUE})

ApiNext ==
    \/ \E v \in AnyEnvironments : setEnv(v)
    \/ \E b \in BOOLEAN : setSandbox(b)
    \/ \E k \in {"", GoodKey} : setPrivateKey(k)
    \/ \E k \in PublicKeys : setPublicKey(k)
    \/ \E k \in KeyIds : setKeyId(k)
    \/ \E v \in HeaderValues : setPlatformVersionHeader(v)
    \/ \E v \in HeaderValues : setPlatformHeader(v)
    \/ \E v \in HeaderValues : setPluginVersionHeader(v)
    \/ \E v \in HeaderValues : setPluginNameHeader(v)
    \/ \E v \in HeaderValues : setTypeHeader(v)
    \/ \E v \in HeaderValues : setTrackingHeader(v)

ApiSpec == ApiInit /\ [][ApiNext]_vars

----------------------------------------------------------------------------
(* The specification of the factory *)

\* a signed GET with no body and no headers of the caller
SignedGet == [headers |-> NoHeaders, body |-> JsUndefined, sign |-> TRUE]

FactoryNext ==
    \/ FactoryGet
    \/ \E b \in BOOLEAN : SetCryptoAvailable(b)
    \/ setPrivateKey(GoodKey)
    \/ setKeyId("key-1")
    \/ \E c \in CallIds : get(c, "/g_business/v1/payments", SignedGet)
    \/ \E c \in CallIds : Assemble(c)
    \/ \E c \in CallIds : Settle(c, Response(200, KeyIdBody("key-2")))
    \/ \E c \in CallIds : Return(c)

FactorySpec == Init /\ [][FactoryNext]_vars

----------------------------------------------------------------------------
(* The specification of the activation exchange *)

\* two call slots: two calls of Request may be in flight
TwoCallIds == {1, 2}

Tokens == {"token-1"}

\* what fetch settles with in the activation exchange: those of Responses and
\* a 200 whose body is the JSON text null
AuthResponses == Responses \cup {Response(200, JsNull)}

AuthInit == InitOver(TwoCallIds, BOOLEAN)

AuthNext ==
    \/ \E a \in AuthIds, t \in Tokens, c \in TwoCallIds : authenticateWithToken(a, t, c)
    \/ \E a \in AuthIds : authenticateWithToken_resumes(a)
    \/ \E a \in AuthIds : authenticateWithToken_returns(a)
    \/ setPrivateKey(GoodKey)
    \/ setKeyId("key-1")
    \/ \E c \in TwoCallIds : get(c, "/g_business/v1/payments", SignedGet)
    \/ \E c \in TwoCallIds : Assemble(c)
    \/ \E c \in TwoCallIds, r \in AuthResponses : Settle(c, r)
    \/ \E c \in TwoCallIds : Return(c)

AuthSpec == AuthInit /\ [][AuthNext]_vars

----------------------------------------------------------------------------
(* The specification of concurrent activation exchanges *)

\* two slots: two calls of authenticateWithToken may be in flight
TwoAuthIds == {1, 2}

ExchangeTokens == {"token-1", "token-2"}

\* the key id the server issues for the public key a post registers
IssuedFor(call) ==
    LET pub == Get(call.body, <<"public_key">>).str[1]
    IN  IssuedKeyIds[CHOOSE i \in DOMAIN GeneratedPublicKeys : GeneratedPublicKeys[i] = pub]

\* what fetch settles the post of an exchange with: a failure of the
\* transport, a 200 with the key id issued for the public key of the post, and
\* a 200 whose body is the JSON text null
ExchangeResponses(call) ==
    { FetchFailure,
      Response(200, KeyIdBody(IssuedFor(call))),
      Response(200, JsNull) }

ExchangeInit ==
    /\ env = "production"
    /\ authservicesUrl = <<"https://", "authservices.satispay.com">>
    /\ privateKey = Null
    /\ publicKey = Null
    /\ keyId = Null
    /\ apiHeaders = [f \in HeaderFields |-> Null]
    /\ instance = NoInstance
    /\ created = 0
    /\ probes = 0
    /\ served = {}
    /\ got = NotGot
    /\ cryptoAvailable = TRUE
    /\ generated = 0
    /\ calls = [c \in TwoCallIds |-> IdleCall]
    /\ auths = [a \in TwoAuthIds |-> IdleAuth]

ExchangeNext ==
    \/ \E a \in TwoAuthIds, t \in ExchangeTokens, c \in TwoCallIds :
          authenticateWithToken(a, t, c)
    \/ \E c \in TwoCallIds : Assemble(c)
    \/ \E c \in TwoCallIds :
          /\ calls[c].pc = "fetching"
          /\ \E r \in ExchangeResponses(calls[c]) : Settle(c, r)
    \/ \E a \in TwoAuthIds : authenticateWithToken_resumes(a)
    \/ \E a \in TwoAuthIds : authenticateWithToken_returns(a)

ExchangeSpec == ExchangeInit /\ [][ExchangeNext]_vars

----------------------------------------------------------------------------
(* The specification of requests while the environment changes *)

\* the options of the requests: with and without signing asked
AgentOptions == [headers : {NoHeaders}, body : {JsUndefined}, sign : BOOLEAN]

AgentInit == InitOver(TwoCallIds, {TRUE})

AgentNext ==
    \/ \E v \in AnyEnvironments : setEnv(v)
    \/ \E b \in BOOLEAN : setSandbox(b)
    \/ setPrivateKey(GoodKey)
    \/ setKeyId("key-1")
    \/ \E c \in TwoCallIds, o \in AgentOptions : get(c, "/g_business/v1/payments", o)
    \/ \E c \in TwoCallIds : Assemble(c)
    \/ \E c \in TwoCallIds : ImportHttps(c)
    \/ \E c \in TwoCallIds : Settle(c, Response(200, KeyIdBody("key-2")))
    \/ \E c \in TwoCallIds : Return(c)

AgentSpec == AgentInit /\ [][AgentNext]_vars

----------------------------------------------------------------------------
(* The specification of two concurrent calls of Request *)

\* the options of the concurrent calls: signing asked, with or without a body
\* and headers of the caller
ConcurrentOptions ==
    [headers : {NoHeaders, [n \in {"X-Custom-Header"} |-> <<"caller's ", n>>]},
     body : {JsUndefined,
             JsObject(<<[key |-> <<"f", "l", "o", "w">>, value |-> JsString(<<"M">>)]>>)},
     sign : {TRUE}]

ConcurrentInit == InitOver(TwoCallIds, {TRUE})

ConcurrentNext ==
    \/ setPrivateKey(GoodKey)
    \/ setKeyId("key-1")
    \/ \E c \in TwoCallIds, p \in Paths, o \in ConcurrentOptions :
          get(c, p, o) \/ post(c, p, o)
    \/ \E c \in TwoCallIds : Assemble(c)
    \/ \E c \in TwoCallIds : Settle(c, Response(200, KeyIdBody("key-2")))
    \/ \E c \in TwoCallIds : Return(c)

ConcurrentSpec == ConcurrentInit /\ [][ConcurrentNext]_vars

----------------------------------------------------------------------------
(* The specification of the responses: one unsigned call at a time *)

\* the statuses of the responses: those around the bounds of 2xx and a 404
Statuses == {199, 200, 299, 300, 404}

\* the texts of the responses: the JSON texts, a text that is not JSON and the
\* empty text
ResponseTexts ==
    {JSONstringify(v) : v \in JsonValues} \cup {<<"Plain text response">>, <<>>}

StatusResponses ==
    {FetchFailure, TextFailure(200), TextFailure(404)}
    \cup {TextResponse(st, t) : st \in Statuses, t \in ResponseTexts}

\* the options of the calls: no signing asked, with or without a body
StatusOptions ==
    [headers : {NoHeaders},
     body : {JsUndefined,
             JsObject(<<[key |-> <<"f", "l", "o", "w">>, value |-> JsString(<<"M">>)]>>)},
     sign : {FALSE}]

StatusInit == InitOver(CallIds, {TRUE})

StatusNext ==
    \/ \E c \in CallIds, p \in Paths, o \in StatusOptions : get(c, p, o) \/ post(c, p, o)
    \/ \E c \in CallIds : Assemble(c)
    \/ \E c \in CallIds, r \in StatusResponses : Settle(c, r)
    \/ \E c \in CallIds : Return(c)

StatusSpec == StatusInit /\ [][StatusNext]_vars

----------------------------------------------------------------------------
(* The specification of the headers: global headers and headers of the caller *)

\* the headers of the caller: none, and headers under the names of a global
\* header, of the idempotency key, of the content type and of a header of the
\* caller's own
PerRequestHeaders ==
    { NoHeaders,
      [n \in {"x-satispay-tracking-code", "Idempotency-Key"} |-> <<"caller's ", n>>],
      [n \in {"Content-Type", "X-Custom-Header"} |-> <<"caller's ", n>>] }

HeaderOptions ==
    [headers : PerRequestHeaders,
     body : {JsUndefined,
             JsObject(<<[key |-> <<"f", "l", "o", "w">>, value |-> JsString(<<"M">>)]>>)},
     sign : BOOLEAN]

\* the values a caller gives the global headers
GlobalHeaderValues == {"", "tracking-code-123"}

HeaderInit == InitOver(CallIds, {TRUE})

HeaderNext ==
    \/ \E v \in GlobalHeaderValues : setTrackingHeader(v)
    \/ \E v \in GlobalHeaderValues : setPlatformHeader(v)
    \/ setPrivateKey(GoodKey)
    \/ setKeyId("key-1")
    \/ \E c \in CallIds, o \in HeaderOptions :
          get(c, "/g_business/v1/payments", o) \/ post(c, "/g_business/v1/payments", o)
    \/ \E c \in CallIds : Assemble(c)
    \/ \E c \in CallIds : Settle(c, Response(200, KeyIdBody("key-2")))
    \/ \E c \in CallIds : Return(c)

HeaderSpec == HeaderInit /\ [][HeaderNext]_vars

----------------------------------------------------------------------------
(* The specification of the resource wrappers: two calls may be in flight *)

\* what callers give the wrappers: an id, a phone number, a date or none, a
\* query or none, headers or none, a body
ResourceIds == {"id-1"}
PhoneNumbers == {"+393331234567"}
Dates == {"", "20240115"}
Queries == {<<>>, <<[key |-> "limit", value |-> "1"]>>}
WrapperHeaders == {NoHeaders, [n \in {"Idempotency-Key"} |-> <<"caller's ", n>>]}
WrapperBodies ==
    {JsObject(<<[key |-> <<"f", "l", "o", "w">>, value |-> JsString(<<"M">>)]>>)}

\* the calls of the wrappers, in the call slot c
WrapperCall(c) ==
    \/ \E b \in WrapperBodies, h \in WrapperHeaders : Payment_create(c, b, h)
    \/ \E i \in ResourceIds, h \in WrapperHeaders : Payment_get(c, i, h)
    \/ \E q \in Queries, h \in WrapperHeaders : Payment_all(c, q, h)
    \/ \E i \in ResourceIds, b \in WrapperBodies, h \in WrapperHeaders :
          Payment_update(c, i, b, h)
    \/ \E n \in PhoneNumbers, h \in WrapperHeaders : Consumer_get(c, n, h)
    \/ \E d \in Dates, q \in Queries, h \in WrapperHeaders : DailyClosure_get(c, d, q, h)
    \/ \E b \in WrapperBodies, h \in WrapperHeaders :
          PreAuthorizedPaymentToken_create(c, b, h)
    \/ \E i \in ResourceIds, h \in WrapperHeaders : PreAuthorizedPaymentToken_get(c, i, h)
    \/ \E i \in ResourceIds, b \in WrapperBodies, h \in WrapperHeaders :
          PreAuthorizedPaymentToken_update(c, i, b, h)
    \/ \E b \in WrapperBodies, h \in WrapperHeaders : Report_create(c, b, h)
    \/ \E q \in Queries, h \in WrapperHeaders : Report_all(c, q, h)
    \/ \E i \in ResourceIds, h \in WrapperHeaders : Report_get(c, i, h)
    \/ \E b \in WrapperBodies, h \in WrapperHeaders : Session_open(c, b, h)
    \/ \E i \in ResourceIds, h \in WrapperHeaders : Session_get(c, i, h)
    \/ \E i \in ResourceIds, b \in WrapperBodies, h \in WrapperHeaders :
          Session_update(c, i, b, h)
    \/ \E i \in ResourceIds, b \in WrapperBodies, h \in WrapperHeaders :
          Session_createEvent(c, i, b, h)

\* what fetch settles with for the calls of the wrappers: a 200 and a 404
WrapperResponses ==
    {Response(200, KeyIdBody("key-2")), Response(404, JsString(<<"Not Found">>))}

\* the state after the modules are loaded and the caller has set the private
\* key and the key id
WrapperInit ==
    /\ env = "production"
    /\ authservicesUrl = <<"https://", "authservices.satispay.com">>
    /\ privateKey = GoodKey
    /\ publicKey = Null
    /\ keyId = "key-1"
    /\ apiHeaders = [f \in HeaderFields |-> Null]
    /\ instance = NoInstance
    /\ created = 0
    /\ probes = 0
    /\ served = {}
    /\ got = NotGot
    /\ cryptoAvailable = TRUE
    /\ generated = 0
    /\ calls = [c \in TwoCallIds |-> IdleCall]
    /\ auths = [a \in AuthIds |-> IdleAuth]

WrapperNext ==
    \/ \E c \in TwoCallIds : WrapperCall(c)
    \/ \E c \in TwoCallIds : Assemble(c)
    \/ \E c \in TwoCallIds, r \in WrapperResponses : Settle(c, r)
    \/ \E c \in TwoCallIds : WrapperSettles(c)
    \/ \E c \in TwoCallIds : Return(c)

WrapperSpec == WrapperInit /\ [][WrapperNext]_vars

----------------------------------------------------------------------------
(* The specification of Payment.create and Payment.update *)

\* a property of a body of a payment
Prop(name, value) == [key |-> <<name>>, value |-> value]

\* the bodies callers give: with amount_unit alone, with an amount of whole
\* euros, of euros and cents (10.50) and of three decimals (10.507, 10.502),
\* with amount and amount_unit, and with an amount that is undefined
PaymentBodies ==
    { JsObject(<<Prop("flow", JsString(<<"MATCH_CODE">>)), Prop("amount_unit", JsNumber(100))>>),
      JsObject(<<Prop("flow", JsString(<<"MATCH_CODE">>)), Prop("amount", JsNumber(10))>>),
      JsObject(<<Prop("amount", JsThousandths(10500)), Prop("currency", JsString(<<"EUR">>))>>),
      JsObject(<<Prop("amount", JsThousandths(10507))>>),
      JsObject(<<Prop("amount", JsThousandths(10502))>>),
      JsObject(<<Prop("amount_unit", JsNumber(7)), Prop("amount", JsThousandths(10500)),
                 Prop("currency", JsString(<<"EUR">>))>>),
      JsObject(<<Prop("amount", JsUndefined), Prop("amount_unit", JsNumber(100))>>) }

PaymentInit == InitOver(CallIds, {TRUE})

PaymentNext ==
    \/ setPrivateKey(GoodKey)
    \/ setKeyId("key-1")
    \/ \E c \in CallIds, b \in PaymentBodies, h \in WrapperHeaders : Payment_create(c, b, h)
    \/ \E c \in CallIds, i \in ResourceIds, b \in PaymentBodies, h \in WrapperHeaders :
          Payment_update(c, i, b, h)
    \/ \E c \in CallIds : Assemble(c)
    \/ \E c \in CallIds : Settle(c, Response(200, KeyIdBody("key-2")))
    \/ \E c \in CallIds : WrapperSettles(c)
    \/ \E c \in CallIds : Return(c)

PaymentSpec == PaymentInit /\ [][PaymentNext]_vars

----------------------------------------------------------------------------
(* Reading a canonical string and the state of a call *)

\* the lines of a string: its pieces between newlines, as String.split('\n')
RECURSIVE Lines(_)
Lines(s) ==
    IF \A i \in 1..Len(s) : s[i] # "\n" THEN <<s>>
    ELSE LET i == CHOOSE k \in 1..Len(s) : s[k] = "\n" /\ \A j \in 1..(k - 1) : s[j] # "\n"
         IN  <<SubSeq(s, 1, i - 1)>> \o Lines(SubSeq(s, i + 1, Len(s)))

\* the name of a pseudo-header line, "" for a line that is not "name: value"
LineName(l) == IF Len(l) >= 2 /\ l[2] = ": " THEN l[1] ELSE ""

\* the value of a pseudo-header line
LineValue(l) == SubSeq(l, 3, Len(l))

\* the names of the lines of a string, in order
LineNames(s) == [i \in 1..Len(Lines(s)) |-> LineName(Lines(s)[i])]

\* the values of the lines of a string that bear a name
ValuesOf(s, name) ==
    {LineValue(Lines(s)[i]) : i \in {k \in 1..Len(Lines(s)) : LineName(Lines(s)[k]) = name}}

\* names joined by single spaces
RECURSIVE SpaceJoined(_)
SpaceJoined(names) ==
    IF Len(names) <= 1 THEN names
    ELSE <<Head(names), " ">> \o SpaceJoined(Tail(names))

SixNames == <<"(request-target)", "host", "content-type", "content-length", "digest", "date">>
FourNames == <<"(request-target)", "host", "digest", "date">>
SigningNames == {"Date", "Digest", "Authorization"}

\* request built the headers and options of the call (nothing threw before)
HeadersBuilt(call) == call.fetchOptions.method # ""

\* fetch was called for the call
ReachedTransport(call) == call.fetchCalls > 0

\* signRequest built a canonical string for the call
Canonicalized(call) == call.signature # <<>>

\* the call was signed: the signer was called and request went on
SignedCall(call) == call.nSign > 0 /\ HeadersBuilt(call)

\* a credential that is there: neither null nor empty (nor never read)
Present(s) == s \notin {Null, "", Unread}

\* the call has read both credentials and both were there
CredentialsRead(call) == Present(call.privateKey) /\ Present(call.keyId)

\* the headers of the call bear a signature: a date of the clock, a SHA-256
\* digest and a Signature authorization
CarriesSignature(call) ==
    LET h == call.fetchOptions.headers
    IN  /\ SigningNames \subseteq DOMAIN h
        /\ h["Date"][1] = "UTC second "
        /\ h["Digest"][1] = "SHA-256="
        /\ h["Authorization"][1] = "Signature keyId=\""

\* what the library added under a name to the headers the caller gave
KeptFromCaller(call, n) ==
    LET h == call.fetchOptions.headers
    IN  IF n \in DOMAIN call.headers
        THEN n \in DOMAIN h /\ h[n] = call.headers[n]
        ELSE n \notin DOMAIN h

----------------------------------------------------------------------------
(* Claims *)

\* C1: the canonical string signRequest builds has exactly the six lines
\* (request-target), host, content-type, content-length, digest, date when
\* the serialized body is non-empty and exactly the four lines
\* (request-target), host, digest, date when it is empty, newline-joined with
\* no trailing newline.
C1_CanonicalLines ==
    \A c \in DOMAIN calls :
        Canonicalized(calls[c]) =>
            /\ LineNames(calls[c].signature) =
                  (IF calls[c].serialized # <<>> THEN SixNames ELSE FourNames)
            /\ calls[c].signature[Len(calls[c].signature)] # "\n"
            /\ ("content-type" \in {LineNames(calls[c].signature)[i] :
                                       i \in 1..Len(LineNames(calls[c].signature))}
                  <=> calls[c].serialized # <<>>)

C1_Witness ==
    \E c \in DOMAIN calls :
        /\ ReachedTransport(calls[c]) /\ SignedCall(calls[c])
        /\ calls[c].serialized # <<>>
        /\ Len(Lines(calls[c].signature)) = 6

\* C2: the Authorization header of a signed request is
\* Signature keyId="<keyId read>", algorithm="rsa-sha256", headers="<list>",
\* signature="<base64>", the list being the space-joined names of the lines of
\* the canonical string of the same request, in the same order.
C2_AuthorizationFormat ==
    \A c \in DOMAIN calls :
        SignedCall(calls[c]) =>
            LET auth == calls[c].fetchOptions.headers["Authorization"]
                front == <<"Signature keyId=\"", calls[c].keyId,
                           "\", algorithm=\"rsa-sha256\", headers=\"">>
                         \o SpaceJoined(LineNames(calls[c].signature))
                         \o <<"\", signature=\"">>
            IN  /\ Len(auth) > Len(front) + 1
                /\ SubSeq(auth, 1, Len(front)) = front
                /\ auth[Len(front) + 1] = "base64("
                /\ auth[Len(auth)] = "\""

C2_Witness ==
    \E c \in DOMAIN calls :
        /\ ReachedTransport(calls[c]) /\ SignedCall(calls[c])
        /\ calls[c].serialized = <<>>
        /\ calls[c].keyId = "key-1"
        /\ SubSeq(calls[c].fetchOptions.headers["Authorization"], 4, 10)
              = SpaceJoined(FourNames)

\* C3: the Digest header of a signed request that reaches the transport is
\* the SHA-256 of the body handed to the transport (of no bytes when no body
\* is handed over), for every method.
C3_DigestOfTransmittedBody ==
    \A c \in DOMAIN calls :
        (ReachedTransport(calls[c]) /\ SignedCall(calls[c])) =>
            calls[c].fetchOptions.headers["Digest"]
               = <<"SHA-256=">> \o Sha256Base64(calls[c].fetchOptions.body.text)

\* C4 as claimed: whenever privateKey and keyId are both present in the
\* store, a request that reaches the transport carries the signing headers.
C4_SignedWheneverCredentials ==
    [][\A c \in DOMAIN calls :
          (/\ calls[c].pc = "importing"
           /\ calls'[c].pc = "fetching"
           /\ Present(privateKey) /\ Present(keyId))
          => CarriesSignature(calls'[c])]_vars

\* C4 as amended: a request for which signing was asked is handed to the
\* transport with the signing headers if and only if the privateKey and keyId
\* it read are both present; a request for which signing was not asked reads
\* neither and is not signed.
C4_SignedIffCredentialsRead ==
    \A c \in DOMAIN calls :
        ReachedTransport(calls[c]) =>
            /\ calls[c].sign => (CarriesSignature(calls[c]) <=> CredentialsRead(calls[c]))
            /\ calls[c].sign => (SignedCall(calls[c]) <=> CredentialsRead(calls[c]))
            /\ ~calls[c].sign =>
                  /\ ~SignedCall(calls[c])
                  /\ calls[c].privateKey = Unread /\ calls[c].keyId = Unread
                  /\ \A n \in SigningNames : KeptFromCaller(calls[c], n)

C4_Witness ==
    \E c \in DOMAIN calls :
        /\ ReachedTransport(calls[c])
        /\ calls[c].sign
        /\ calls[c].privateKey = GoodKey /\ calls[c].keyId = ""
        /\ calls[c].headers = NoHeaders
        /\ DOMAIN calls[c].fetchOptions.headers \cap SigningNames = {}

\* C5: when the signer fails, the call rejects with the signing error, fetch
\* is not called for it and no headers or options are built.
C5_SignerFailureRejects ==
    \A c \in DOMAIN calls :
        /\ (calls[c].nSign > 0 /\ calls[c].privateKey # GoodKey) =>
              /\ calls[c].pc = "rejected"
              /\ calls[c].error = "Signing failed"
        /\ calls[c].error = "Signing failed" =>
              /\ calls[c].pc = "rejected"
              /\ calls[c].fetchCalls = 0
              /\ calls[c].fetchOptions = NoFetchOptions
              /\ calls[c].url = <<>>

C5_Witness ==
    \E c \in DOMAIN calls :
        /\ calls[c].error = "Signing failed"
        /\ calls[c].privateKey = BadKey
        /\ calls[c].nSign = 1

\* C6: when the privateKey or the keyId a request with signing asked reads is
\* null or empty, the clock, the factory and the signer are not used, nothing
\* is thrown, no Date, Digest or Authorization header is added, and the
\* request goes on to the transport.
C6_AbsentCredentialsPassThrough ==
    \A c \in DOMAIN calls :
        (/\ calls[c].sign
         /\ calls[c].pc \notin {"idle", "importing"}
         /\ ~CredentialsRead(calls[c])) =>
            /\ calls[c].nClock = 0 /\ calls[c].nFactory = 0 /\ calls[c].nSign = 0
            /\ calls[c].signature = <<>>
            /\ HeadersBuilt(calls[c])
            /\ calls[c].pc = "https" \/ ReachedTransport(calls[c])
            /\ \A n \in SigningNames : KeptFromCaller(calls[c], n)

C6_Witness ==
    \E c \in DOMAIN calls :
        /\ calls[c].sign
        /\ ReachedTransport(calls[c])
        /\ calls[c].privateKey = "" /\ calls[c].keyId = "key-1"
        /\ calls[c].headers = NoHeaders

\* C7: the Date header of a signed request is the value of the date line of
\* the string that was signed, and the clock is read once.
C7_DateHeaderIsDateLine ==
    \A c \in DOMAIN calls :
        SignedCall(calls[c]) =>
            /\ ValuesOf(calls[c].signature, "date") = {calls[c].fetchOptions.headers["Date"]}
            /\ calls[c].nClock = 1

C7_Witness ==
    \E c \in DOMAIN calls :
        /\ ReachedTransport(calls[c]) /\ SignedCall(calls[c])
        /\ calls[c].fetchOptions.headers["Date"] = toUTCString(MaxClock)
        /\ toUTCString(MaxClock) # toUTCString(0)

\* C8: the Digest header of a signed request is the value of the digest line
\* of the string that was signed, and it is the digest of the serialized body,
\* of no bytes when the body is empty.
C8_DigestHeaderIsDigestLine ==
    \A c \in DOMAIN calls :
        SignedCall(calls[c]) =>
            /\ ValuesOf(calls[c].signature, "digest") = {calls[c].fetchOptions.headers["Digest"]}
            /\ calls[c].fetchOptions.headers["Digest"]
                  = <<"SHA-256=", "base64(sha256(">> \o Utf8(calls[c].serialized) \o <<"))">>

C8_Witness ==
    \E c \in DOMAIN calls :
        /\ ReachedTransport(calls[c]) /\ SignedCall(calls[c])
        /\ calls[c].serialized = <<>>
        /\ calls[c].fetchOptions.headers["Digest"] = <<"SHA-256=", "base64(sha256(", "))">>

\* the number of bytes of a serialized body: two for U+00E9, one for any other
\* of its characters
RECURSIVE ByteCount(_)
ByteCount(s) ==
    IF s = <<>> THEN 0 ELSE (IF Head(s) = EAcute THEN 2 ELSE 1) + ByteCount(Tail(s))

\* C9: the content-length line of a signed request with a non-empty body is
\* the number of UTF-8 bytes of the serialized body, and equals the
\* Content-Length header handed to the transport.
C9_ContentLengthIsByteLength ==
    \A c \in DOMAIN calls :
        (SignedCall(calls[c]) /\ calls[c].serialized # <<>>) =>
            /\ ValuesOf(calls[c].signature, "content-length")
                  = {Decimal(ByteCount(calls[c].serialized))}
            /\ calls[c].fetchOptions.headers["Content-Length"]
                  = Decimal(ByteCount(calls[c].serialized))

C9_Witness ==
    \E c \in DOMAIN calls :
        /\ ReachedTransport(calls[c]) /\ SignedCall(calls[c])
        /\ ByteCount(calls[c].serialized) = Len(calls[c].serialized) + 1
        /\ "Content-Length" \in DOMAIN calls[c].fetchOptions.headers

AuthorizationOf(call) == call.fetchOptions.headers["Authorization"]

\* the signature of an Authorization header: what stands between signature="
\* and the closing quote
SignaturePart(auth) ==
    LET i == CHOOSE k \in 1..Len(auth) : auth[k] = "\", signature=\""
    IN  SubSeq(auth, i + 1, Len(auth) - 1)

\* the public modulus of the key a signed call was signed with
SignerTag(call) == SignaturePart(AuthorizationOf(call))[3]

\* C11: whatever setPrivateKey, setKeyId and the resumption of
\* authenticateWithToken do while a request with signing asked is in flight,
\* the request reads privateKey and keyId in one step, in which nothing writes
\* the store: the two values it reads are those the store holds at that
\* instant, the signature is made with that key and the Authorization header
\* names that keyId, and what was read is not read again.
C11_CredentialsReadAtOneInstant ==
    [][\A c \in DOMAIN calls :
          /\ (calls[c].pc = "importing" /\ calls'[c].pc # "importing" /\ calls[c].sign) =>
                /\ calls'[c].privateKey = privateKey /\ calls'[c].keyId = keyId
                /\ privateKey' = privateKey /\ keyId' = keyId
                /\ SignedCall(calls'[c]) =>
                      /\ AuthorizationOf(calls'[c])[2] = keyId
                      /\ SignerTag(calls'[c]) = KeyTag(privateKey)
          /\ (calls[c].pc \notin {"idle", "importing"} /\ calls'[c].pc # "idle") =>
                /\ calls'[c].privateKey = calls[c].privateKey
                /\ calls'[c].keyId = calls[c].keyId
                /\ calls'[c].fetchOptions.headers = calls[c].fetchOptions.headers]_vars

\* a signed call on record read the credentials an activation stored, and the
\* store was written again since
C11_Witness ==
    \E c \in DOMAIN calls :
        /\ SignedCall(calls[c]) /\ ReachedTransport(calls[c])
        /\ calls[c].privateKey = GeneratedPrivateKeys[1]
        /\ calls[c].keyId = "key-2"
        /\ SignerTag(calls[c]) = GeneratedPublicKeys[1]
        /\ privateKey = GoodKey
        /\ \E a \in DOMAIN auths : auths[a].pc = "resolved"

\* the authservicesUrl a call read: its url without the path
UrlRead(call) == SubSeq(call.url, 1, Len(call.url) - 1)

\* the headers request builds for a call that runs alone in a runtime with
\* crypto, from what the caller gave, the fields of Api the call read and a
\* clock reading t
HeadersAlone(call, t) ==
    LET start == ObjectAssign([n \in {"Accept", "User-Agent"} |->
                                  IF n = "Accept" THEN <<"application/json">>
                                  ELSE <<userAgentName, "/">> \o ApiVersion],
                              call.headers)
        content == WithContentHeaders(WithApiHeaders(start, call.apiHeaders), call.body)
        s == signRequest(call.method, call.path, SerializedBody(call.body), UrlRead(call),
                         call.privateKey, call.keyId, <<t, t>>, 1, TRUE, 1)
    IN  IF ShouldSign(call.sign, call.privateKey, call.keyId)
        THEN WithSignHeaders(content, s.headers)
        ELSE content

\* C12: whatever other calls of request are in flight, the method, headers and
\* body a call hands to the transport are those request builds from its own
\* method, path, body and caller headers, the clock reading it captured and
\* the fields of Api it read: nothing of another call is in them.
C12_CallsDoNotInterfere ==
    \A c \in DOMAIN calls :
        HeadersBuilt(calls[c]) =>
            /\ \E t \in 0..MaxClock :
                  calls[c].fetchOptions.headers = HeadersAlone(calls[c], t)
            /\ calls[c].fetchOptions.body
                  = FetchBody(SerializedBody(calls[c].body), calls[c].method)
            /\ calls[c].fetchOptions.method = calls[c].method
            /\ calls[c].url[Len(calls[c].url)] = calls[c].path

\* two signed calls are with the transport at once, with different methods,
\* paths, bodies and caller headers
C12_Witness ==
    /\ \A c \in {1, 2} : calls[c].pc = "fetching" /\ SignedCall(calls[c])
    /\ calls[1].method = "GET" /\ calls[2].method = "POST"
    /\ calls[1].path # calls[2].path
    /\ calls[1].headers = NoHeaders /\ calls[2].headers # NoHeaders
    /\ calls[1].body = JsUndefined /\ calls[2].body # JsUndefined
    /\ "X-Custom-Header" \notin DOMAIN calls[1].fetchOptions.headers
    /\ calls[2].fetchOptions.body.defined

\* C13: all calls of RSAServiceFactory.get() that return, whoever makes them,
\* return one and the same object, the one cached by the first that returned;
\* once an instance is cached it stays, no further object is constructed and
\* isAvailable() is not asked again.
C13_OneInstanceOnceCached ==
    [][/\ Cardinality(served') <= 1
       /\ instance' # NoInstance => served' = {instance'}
       /\ served \subseteq served'
       /\ got'.returned # NoInstance => got'.returned \in served'
       /\ instance # NoInstance =>
             /\ instance' = instance
             /\ created' = created
             /\ probes' = probes]_vars

\* user code and signRequest both got the object cached after a first object
\* was found unavailable and dropped
C13_Witness ==
    /\ instance = 2 /\ served = {2}
    /\ created = 2 /\ probes = 2
    /\ got = [threw |-> FALSE, returned |-> 2]
    /\ \E c \in DOMAIN calls : SignedCall(calls[c]) /\ calls[c].nFactory = 1

\* a call of get() ran past the cache in this step
UncachedGet == probes' # probes \/ created' # created

\* the call of get() of this step threw 'No RSA service available.' to its
\* caller: user code, or signRequest, whose call of request rejects with it
GetThrew ==
    IF calls' = calls
    THEN got' = [threw |-> TRUE, returned |-> NoInstance]
    ELSE \E c \in DOMAIN calls :
            /\ calls[c].pc = "importing" /\ calls'[c].pc = "rejected"
            /\ calls'[c].error = "No RSA service available."
            /\ calls'[c].fetchCalls = 0

\* C14: a call of get() made while no instance is cached and crypto is not
\* available throws and leaves the cache empty, each time it is made; one made
\* once crypto is available returns an object and caches it.
C14_UnavailableThrowsAndCachesNothing ==
    [][/\ (UncachedGet /\ ~cryptoAvailable) =>
             /\ GetThrew
             /\ instance' = NoInstance
             /\ served' = served
       /\ (UncachedGet /\ cryptoAvailable) =>
             /\ instance' # NoInstance
             /\ instance' \in served'
             /\ calls' = calls => got' = [threw |-> FALSE, returned |-> instance']
       /\ (instance = NoInstance /\ instance' # NoInstance) => cryptoAvailable]_vars

\* get() threw for signRequest while crypto was unavailable, and then returned
\* an object to user code once crypto was available
C14_Witness ==
    /\ cryptoAvailable
    /\ instance = 2 /\ created = 2
    /\ got = [threw |-> FALSE, returned |-> 2]
    /\ \E c \in DOMAIN calls :
          calls[c].pc = "rejected" /\ calls[c].error = "No RSA service available."

SigningErrors == {"Signing failed", "No RSA service available."}

\* the errors a call rejects with after fetch was called
TransportErrors == {"fetch failed", "HTTP status is not 2xx"}

\* C16: a call of request calls fetch at most once: once when headers and
\* options were built (after the import of https, where that is awaited),
\* never when signRequest threw; when fetch rejects or the status is not 2xx
\* the call rejects with that error, having called fetch once and no more.
C16_TransportAtMostOnce ==
    \A c \in DOMAIN calls :
        /\ calls[c].fetchCalls <= 1
        /\ (HeadersBuilt(calls[c]) /\ calls[c].pc # "https") => calls[c].fetchCalls = 1
        /\ calls[c].pc \in {"fetching", "resolved"} => calls[c].fetchCalls = 1
        /\ calls[c].fetchCalls = 1 => HeadersBuilt(calls[c])
        /\ calls[c].error \in SigningErrors =>
              /\ calls[c].pc = "rejected"
              /\ calls[c].fetchCalls = 0
        /\ calls[c].error \in TransportErrors =>
              /\ calls[c].pc = "rejected"
              /\ calls[c].fetchCalls = 1
        /\ calls[c].pc = "rejected" =>
              /\ calls[c].error \in SigningErrors \cup TransportErrors
              /\ calls[c].error = "HTTP status is not 2xx"
                    <=> (calls[c].response # NoResponse
                         /\ ~isResponseOk(calls[c].response.status))
        /\ calls[c].pc = "resolved" =>
              /\ calls[c].error = ""
              /\ isResponseOk(calls[c].response.status)

\* a signed call, sent with the agent, rejected with the error of a 404 after
\* one call of fetch
C16_Witness ==
    \E c \in DOMAIN calls :
        /\ calls[c].pc = "rejected"
        /\ calls[c].error = "HTTP status is not 2xx"
        /\ calls[c].response.status = 404
        /\ calls[c].fetchCalls = 1
        /\ calls[c].fetchOptions.agent
        /\ SignedCall(calls[c])

\* C17: when authenticateWithToken resolves, the store holds the private key
\* and the public key it generated and the key_id of the response, and the
\* ApiAuthentication it resolves with carries the same three values; when it
\* rejects, it rejects with an error and privateKey, publicKey and keyId are as
\* they were.
C17_StoreSetOnSuccessOnly ==
    [][\A a \in DOMAIN auths :
          /\ (auths[a].pc = "awaiting" /\ auths'[a].pc = "resolved") =>
                /\ privateKey' = auths[a].keys.privateKey
                /\ publicKey' = auths[a].keys.publicKey
                /\ keyId' = KeyIdOf(calls[auths[a].call].response.body)
                /\ auths'[a].result = ApiAuthentication(privateKey', publicKey', keyId')
          /\ (auths[a].pc \in {"idle", "awaiting"} /\ auths'[a].pc = "rejected") =>
                /\ auths'[a].error # ""
                /\ privateKey' = privateKey
                /\ publicKey' = publicKey
                /\ keyId' = keyId]_vars

\* the chunks of a sequence of chunks
Chunks(s) == {s[i] : i \in DOMAIN s}

\* every chunk a call hands to the transport: of its url, of the names and
\* values of its headers and of its body
SentChunks(call) ==
    Chunks(call.url) \cup Chunks(call.fetchOptions.body.text) \cup Chunks(call.serialized)
    \cup DOMAIN call.fetchOptions.headers
    \cup UNION {Chunks(call.fetchOptions.headers[n]) : n \in DOMAIN call.fetchOptions.headers}

\* the call is the post of an activation exchange
IsActivation(call) == call.path = AuthenticationPath

\* C18: the post of the activation exchange does not read the credentials and
\* is not signed, whatever the store holds; its body is the JSON object of the
\* generated public key and the token and nothing else; and no request, signed
\* or not, carries a generated private key in its url, headers or body.
C18_ActivationUnsignedAndKeyStaysPrivate ==
    \A c \in DOMAIN calls :
        /\ (IsActivation(calls[c]) /\ calls[c].pc # "importing") =>
              /\ HeadersBuilt(calls[c])
              /\ calls[c].privateKey = Unread /\ calls[c].keyId = Unread
              /\ calls[c].nSign = 0 /\ calls[c].nFactory = 0
              /\ DOMAIN calls[c].fetchOptions.headers
                    = {"Accept", "User-Agent", "Content-Type", "Content-Length"}
              /\ \E a \in DOMAIN auths :
                    /\ auths[a].call = c /\ auths[a].pc = "awaiting"
                    /\ calls[c].fetchOptions.body
                          = [defined |-> TRUE,
                             text |-> <<"{", "\"", "public_key", "\"", ":", "\"",
                                        auths[a].keys.publicKey, "\"", ",", "\"",
                                        "token", "\"", ":", "\"", auths[a].token, "\"", "}">>]
        /\ SentChunks(calls[c]) \cap Chunks(GeneratedPrivateKeys) = {}

\* the post of an activation is with the transport, unsigned, while the store
\* holds both credentials, and a request signed with the key of an earlier
\* activation is on record
C18_Witness ==
    \E c \in DOMAIN calls, d \in DOMAIN calls :
        /\ IsActivation(calls[c]) /\ calls[c].pc = "fetching"
        /\ privateKey = GeneratedPrivateKeys[1] /\ keyId = "key-2"
        /\ GeneratedPublicKeys[2] \in SentChunks(calls[c])
        /\ SignedCall(calls[d]) /\ calls[d].privateKey = GeneratedPrivateKeys[1]

\* the URL spelled out for an environment
UrlFor(e) ==
    IF e = "production"
    THEN <<"https://", "authservices.satispay.com">>
    ELSE <<"https://", e, ".authservices.satispay.com">>

\* C19: env starts as production, is the value last given to setEnv and
\* changes by nothing else; before and after every call of a setter,
\* getAuthservicesUrl() is https://authservices.satispay.com when env is
\* production and https://<env>.authservices.satispay.com otherwise, and
\* getSandbox() is true exactly when env is staging; and getSandbox() after
\* setSandbox(v) is v.
C19_EnvUrlSandbox ==
    /\ getEnv = "production"
    /\ getAuthservicesUrl = <<"https://", "authservices.satispay.com">>
    /\ ~getSandbox
    /\ [][/\ getAuthservicesUrl' = UrlFor(getEnv')
          /\ (getAuthservicesUrl' = <<"https://", "authservices.satispay.com">>)
                <=> (getEnv' = "production")
          /\ getSandbox' <=> (getEnv' = "staging")
          /\ \A v \in AnyEnvironments : setEnv(v) => getEnv' = v
          /\ \A b \in BOOLEAN : setSandbox(b) => (getSandbox' = b)
          /\ getEnv' # getEnv => \E v \in AnyEnvironments : setEnv(v)]_vars

\* the environment was set to test, and back to production since staging
C19_Witness ==
    /\ getEnv = "test"
    /\ getAuthservicesUrl = <<"https://", "test", ".authservices.satispay.com">>
    /\ ~getSandbox
    /\ getPrivateKey = GoodKey

\* what the getters of the nine configuration fields of Api return
Getters ==
    [privateKey |-> getPrivateKey, publicKey |-> getPublicKey, keyId |-> getKeyId,
     platformVersionHeader |-> getHeaderField("platformVersionHeader"),
     platformHeader |-> getHeaderField("platformHeader"),
     pluginVersionHeader |-> getHeaderField("pluginVersionHeader"),
     pluginNameHeader |-> getHeaderField("pluginNameHeader"),
     typeHeader |-> getHeaderField("typeHeader"),
     trackingHeader |-> getHeaderField("trackingHeader")]

\* the values callers give the setters
SetterValues == PrivateKeys \cup PublicKeys \cup KeyIds \cup HeaderValues

\* this step is a call of the setter of field f with value v
SetterCall(f, v) ==
    CASE f = "privateKey" -> setPrivateKey(v)
      [] f = "publicKey" -> setPublicKey(v)
      [] f = "keyId" -> setKeyId(v)
      [] f = "platformVersionHeader" -> setPlatformVersionHeader(v)
      [] f = "platformHeader" -> setPlatformHeader(v)
      [] f = "pluginVersionHeader" -> setPluginVersionHeader(v)
      [] f = "pluginNameHeader" -> setPluginNameHeader(v)
      [] f = "typeHeader" -> setTypeHeader(v)
      [] OTHER -> setTrackingHeader(v)

\* C20: every one of the nine configuration fields is null until its setter
\* is called; a call of a setter makes the getter of its field return the
\* value given and leaves the other eight fields, env and authservicesUrl as
\* they were; a field changes by nothing but its setter; and setEnv changes
\* env and authservicesUrl and none of the nine fields.
C20_SettersAndGetters ==
    /\ \A f \in DOMAIN Getters : Getters[f] = Null
    /\ [][/\ \A f \in DOMAIN Getters, v \in SetterValues :
                SetterCall(f, v) =>
                   /\ Getters'[f] = v
                   /\ \A g \in DOMAIN Getters \ {f} : Getters'[g] = Getters[g]
                   /\ getEnv' = getEnv /\ getAuthservicesUrl' = getAuthservicesUrl
          /\ \A f \in DOMAIN Getters :
                Getters'[f] # Getters[f] => \E v \in SetterValues : SetterCall(f, v)
          /\ \A e \in AnyEnvironments : setEnv(e) => Getters' = Getters
          /\ (getEnv' # getEnv \/ getAuthservicesUrl' # getAuthservicesUrl) =>
                /\ \E e \in AnyEnvironments : setEnv(e)
                /\ Getters' = Getters]_vars

\* all nine fields were set, the plugin name twice, and the environment too
C20_Witness ==
    /\ \A f \in DOMAIN Getters : Getters[f] # Null
    /\ Getters.pluginNameHeader = "2.0.0"
    /\ Getters.pluginVersionHeader = "1.0.0"
    /\ getPublicKey = "PUB_B" /\ getPrivateKey = GoodKey /\ getKeyId = "key-1"
    /\ getEnv = "staging"

\* the response of the call is on record: fetch resolved
HasResponse(call) == call.response # NoResponse

\* the three fields of the parsed data of an error are there and truthy
AllTruthy(data) ==
    \A n \in {<<"message">>, <<"code">>, <<"wlt">>} : Truthy(Get(data, n))

\* the three fields of the parsed data of an error are there
AllPresent(data) ==
    \A n \in {<<"message">>, <<"code">>, <<"wlt">>} : Get(data, n) # JsUndefined

\* the message "<message>, request id: <wlt>" of the parsed data of an error
RequestIdMessage(data) ==
    TemplateString(Get(data, <<"message">>)) \o <<", request id: ">>
    \o TemplateString(Get(data, <<"wlt">>))

\* C21 as stated: a call whose response is on record resolves if and only if
\* the status is in 200..299, with the parsed JSON or the raw text; for any
\* other status it rejects with "<message>, request id: <wlt>" when message,
\* code and wlt are all present in the body, and with
\* "HTTP status is not 2xx: <status>" otherwise.
C21_StatusDecidesOutcome ==
    \A c \in DOMAIN calls :
        (HasResponse(calls[c]) /\ calls[c].pc \in {"resolved", "rejected"}) =>
            LET r == calls[c].response
            IN  /\ calls[c].pc = "resolved" <=> (r.status >= 200 /\ r.status <= 299)
                /\ calls[c].pc = "resolved" =>
                      r.body = (IF IsJson(r.text) THEN JSONparse(r.text) ELSE JsString(r.text))
                /\ calls[c].pc = "rejected" =>
                      calls[c].message =
                          (IF AllPresent(r.body) THEN RequestIdMessage(r.body)
                           ELSE <<"HTTP status is not 2xx: ">> \o Decimal(r.status))

\* C21: a call whose response was received and read resolves if and only if
\* the status is in 200..299, with the parsed JSON or the raw text; for any
\* other status it rejects with "<message>, request id: <wlt>" when message,
\* code and wlt of the body are all truthy, and with
\* "HTTP status is not 2xx: <status>" otherwise (also when one of the three is
\* there and is empty or 0); a call whose response could not be read rejects
\* whatever the status.
C21_StatusAndTruthyFields ==
    \A c \in DOMAIN calls :
        (HasResponse(calls[c]) /\ calls[c].pc \in {"resolved", "rejected"}) =>
            LET r == calls[c].response
            IN  IF r.failed
                THEN calls[c].pc = "rejected" /\ calls[c].message = <<>>
                ELSE /\ calls[c].pc = "resolved" <=> (r.status >= 200 /\ r.status <= 299)
                     /\ calls[c].pc = "resolved" =>
                           r.body = (IF IsJson(r.text) THEN JSONparse(r.text)
                                     ELSE JsString(r.text))
                     /\ calls[c].pc = "rejected" =>
                           calls[c].message =
                               (IF AllTruthy(r.body) THEN RequestIdMessage(r.body)
                                ELSE <<"HTTP status is not 2xx: ">> \o Decimal(r.status))

\* a 300 whose body bears the three fields, rejected with the request id
C21_Witness ==
    \E c \in DOMAIN calls :
        /\ calls[c].pc = "rejected"
        /\ calls[c].response.status = 300
        /\ calls[c].message = <<"Invalid", ", request id: ", "w-1">>

\* C22 as stated: the body handed to fetch is set if and only if the caller
\* gave a body whose JSON is a non-empty string and the method is not GET; when
\* set it is the JSON of the caller's body; with no body of the caller it is
\* undefined for every method.
C22_BodySetIffSerializable ==
    \A c \in DOMAIN calls :
        HeadersBuilt(calls[c]) =>
            LET sent == calls[c].fetchOptions.body
                given == calls[c].body
            IN  /\ sent.defined <=>
                      (/\ given.kind # "undefined"
                       /\ JSONstringify(given) # <<>>
                       /\ calls[c].method # "GET")
                /\ sent.defined => sent.text = JSONstringify(given)
                /\ given.kind = "undefined" => ~sent.defined

\* C22: the body handed to fetch is set if and only if the caller gave a
\* truthy body and the method is not GET; when set it is the JSON of the
\* caller's body; with no body of the caller, and with a body of the caller
\* that is falsy (0), it is undefined for every method.
C22_BodySetIffTruthy ==
    \A c \in DOMAIN calls :
        HeadersBuilt(calls[c]) =>
            LET sent == calls[c].fetchOptions.body
                given == calls[c].body
            IN  /\ sent.defined <=> (Truthy(given) /\ calls[c].method # "GET")
                /\ sent.defined => sent.text = JSONstringify(given)
                /\ ~Truthy(given) => ~sent.defined

\* a PATCH whose body of two properties reached fetch as its JSON
C22_Witness ==
    \E c \in DOMAIN calls :
        /\ ReachedTransport(calls[c])
        /\ calls[c].method = "PATCH"
        /\ Len(calls[c].body.props) = 2
        /\ calls[c].fetchOptions.body.defined
        /\ calls[c].fetchOptions.body.text = JSONstringify(calls[c].body)

\* C23: every header the caller gives under a name other than Date, Digest
\* and Authorization is among the headers handed to fetch with the caller's
\* value, whatever the global headers of Api and with or without a body.
C23_CallerHeadersReachTransport ==
    \A c \in DOMAIN calls :
        HeadersBuilt(calls[c]) =>
            \A n \in DOMAIN calls[c].headers \ SigningNames :
                /\ n \in DOMAIN calls[c].fetchOptions.headers
                /\ calls[c].fetchOptions.headers[n] = calls[c].headers[n]

\* the call was made by a resource wrapper
ByWrapper(call) == call.wrapper # ""

\* C24: a call of a resource wrapper makes exactly one call of Request, with
\* sign: true and the headers its caller gave, and its promise settles as that
\* call settles: resolved with its result or rejected with its error. The step
\* that calls the wrapper starts one call of Request and touches no other; the
\* wrapper starts no second call; its caller gets the outcome only once it is
\* the outcome of the call.
C24_WrappersPassThrough ==
    [][/\ \A c \in DOMAIN calls :
            ByWrapper(calls'[c]) =>
                /\ calls'[c].sign = TRUE
                /\ calls'[c].headers = calls'[c].args.headers
                /\ calls'[c].pc # "idle"
                /\ calls'[c].fetchCalls <= 1
                /\ calls'[c].outcome.pc = "resolved" =>
                      /\ calls'[c].pc = "resolved"
                      /\ calls'[c].outcome.value = calls'[c].response.body
                /\ calls'[c].outcome.pc = "rejected" =>
                      /\ calls'[c].pc = "rejected"
                      /\ calls'[c].outcome.error = calls'[c].error
                      /\ calls'[c].outcome.message = calls'[c].message
       /\ \A c \in DOMAIN calls :
            (~ByWrapper(calls[c]) /\ ByWrapper(calls'[c])) =>
                /\ calls[c].pc = "idle"
                /\ calls'[c].pc = "importing"
                /\ \A d \in DOMAIN calls \ {c} : calls'[d] = calls[d]
       /\ \A c \in DOMAIN calls :
            (ByWrapper(calls[c]) /\ ByWrapper(calls'[c])) =>
                /\ calls'[c].wrapper = calls[c].wrapper
                /\ calls'[c].args = calls[c].args
                /\ calls'[c].pc = "importing" => calls[c].pc = "importing"
       /\ \A c \in DOMAIN calls :
            (ByWrapper(calls[c]) /\ ~ByWrapper(calls'[c])) =>
                calls[c].outcome.pc # "pending"
      ]_vars

\* Session.update, called with an idempotency key, has rejected with the
\* error of a 404 while Payment.create is in flight
C24_Witness ==
    \E c \in DOMAIN calls, d \in DOMAIN calls :
        /\ calls[c].wrapper = "Session.update"
        /\ "Idempotency-Key" \in DOMAIN calls[c].fetchOptions.headers
        /\ calls[c].outcome.pc = "rejected"
        /\ calls[c].outcome.message = <<"HTTP status is not 2xx: ", "4", "0", "4">>
        /\ calls[d].wrapper = "Payment.create"
        /\ calls[d].pc = "fetching"

\* the keys of an object, and the value under a key that is there
KeysOf(v) == {v.props[i].key : i \in 1..Len(v.props)}
ValueAt(v, k) == v.props[CHOOSE i \in 1..Len(v.props) : v.props[i].key = k].value

\* k is an integer nearest to a hundred times the number v
NearestToHundredTimes(k, v) ==
    IF v.kind = "fraction"
    THEN 10 * k <= v.num + 5 /\ v.num <= 10 * k + 5
    ELSE k = 100 * v.num

\* C25: for a call of Payment.create or Payment.update whose body has a
\* defined amount, the body given to Request has amount_unit equal to the
\* amount times 100 rounded to the nearest integer, whatever amount_unit the
\* caller gave, has no amount, and has the caller's other keys and values; for
\* a body whose amount is absent or undefined it has the same keys and values;
\* and the caller's body is afterwards as it was.
C25_AmountBecomesAmountUnit ==
    \A c \in DOMAIN calls :
        calls[c].wrapper \in {"Payment.create", "Payment.update"} =>
            LET given == calls[c].args.body
                passed == calls[c].body
                others == KeysOf(given) \ {<<"amount">>, <<"amount_unit">>}
            IN  /\ calls[c].args.bodyAfter = given
                /\ IF <<"amount">> \in KeysOf(given)
                      /\ ValueAt(given, <<"amount">>).kind # "undefined"
                   THEN /\ KeysOf(passed) = others \cup {<<"amount_unit">>}
                        /\ ValueAt(passed, <<"amount_unit">>).kind = "number"
                        /\ NearestToHundredTimes(ValueAt(passed, <<"amount_unit">>).num,
                                                 ValueAt(given, <<"amount">>))
                        /\ \A k \in others : ValueAt(passed, k) = ValueAt(given, k)
                   ELSE /\ KeysOf(passed) = KeysOf(given)
                        /\ \A k \in KeysOf(given) : ValueAt(passed, k) = ValueAt(given, k)

\* Payment.update with an amount of 10.507 euros and no amount_unit has sent
\* the body {"amount_unit":1051}
C25_Witness ==
    \E c \in DOMAIN calls :
        /\ calls[c].wrapper = "Payment.update"
        /\ ReachedTransport(calls[c])
        /\ calls[c].args.body = JsObject(<<[key |-> <<"amount">>, value |-> JsThousandths(10507)]>>)
        /\ calls[c].fetchOptions.body.text =
              <<"{", "\"", "amount_unit", "\"", ":", "1", "0", "5", "1", "}">>

\* Buffer.from(s, 'base64'): the bytes a base64 text stands for
fromBase64(s) == SubSeq(s, 2, Len(s) - 1)

\* a standard RSA-SHA256 (PKCS#1 v1.5) verifier: the signature is the one the
\* private key of the public key makes over the bytes of the message
Verifies(pub, message, signature) ==
    signature = <<"RSA-SHA256[", pub, "](">> \o Utf8(message) \o <<")">>

\* the key is the private key of a pair generateKeys returns
IsGenerated(key) == \E n \in 0..(MaxGenerated - 1) : generateKeys(n).privateKey = key

\* the pair generateKeys returned the private key in
PairOf(key) ==
    generateKeys(CHOOSE n \in 0..(MaxGenerated - 1) : generateKeys(n).privateKey = key)

IsPrefix(s, t) == Len(s) <= Len(t) /\ s = SubSeq(t, 1, Len(s))

\* a phase is among the phases of a call
InPhases(call, phase) == \E i \in 1..Len(call.phases) : call.phases[i] = phase

\* the digest of the call is complete: the digest line of the canonical string
\* is that of the serialized body
DigestComplete(call) ==
    ValuesOf(call.signature, "digest") = {<<"SHA-256=">> \o Sha256Base64(call.serialized)}

\* the canonical string of the call is complete: it ends with the date line
CanonicalComplete(call) ==
    LET names == LineNames(call.signature)
    IN  Canonicalized(call) /\ names[Len(names)] = "date"

\* what C27 says of the signer and the transport: the signer is called only
\* once the canonical string and the digest of the call are complete, and
\* fetch, for a call that signs, only once ASSEMBLED is reached
SignerAndTransportLast(call) ==
    /\ call.nSign > 0 => (CanonicalComplete(call) /\ DigestComplete(call)
                          /\ InPhases(call, "SIGNING"))
    /\ InPhases(call, "SIGNING") => call.nSign = 1
    /\ (ReachedTransport(call) /\ Len(call.phases) > 1) => InPhases(call, "ASSEMBLED")
    /\ InPhases(call, "ASSEMBLED") => CarriesSignature(call)

AuthorityOf(url) == SubSeq(url, 2, Len(url) - 1)
PathAndQueryOf(url) == url[Len(url)]

\* the method in lower case
LowerCased(method) ==
    CASE method = "GET" -> "get"
      [] method = "POST" -> "post"
      [] method = "PUT" -> "put"
      [] method = "PATCH" -> "patch"
      [] OTHER -> "delete"

\* C28: whatever calls of setEnv and setSandbox come between the steps of a
\* signed request, the host line of the string it signed is the authority of
\* the URL given to fetch, without the scheme, and the (request-target) line is
\* the method in lower case, a space and the path, query string included,
\* that follows the authority in that URL; and once fetch was called neither
\* the URL nor the signed string of the call changes.
C28_SignedHostAndPathAreThoseSent ==
    /\ [](\A c \in DOMAIN calls :
             (ReachedTransport(calls[c]) /\ Canonicalized(calls[c])) =>
                 /\ calls[c].url[1] = "https://"
                 /\ ValuesOf(calls[c].signature, "host") = {AuthorityOf(calls[c].url)}
                 /\ ValuesOf(calls[c].signature, "(request-target)")
                       = {<<LowerCased(calls[c].fetchOptions.method), " ",
                            PathAndQueryOf(calls[c].url)>>})
    /\ [][\A c \in DOMAIN calls :
             (ReachedTransport(calls[c]) /\ calls'[c].pc # "idle") =>
                 /\ calls'[c].url = calls[c].url
                 /\ calls'[c].signature = calls[c].signature]_vars

\* a signed request with a query string, signed and sent for staging with the
\* agent, is in flight while the environment is production again
C28_Witness ==
    \E c \in DOMAIN calls :
        /\ calls[c].pc = "fetching"
        /\ Canonicalized(calls[c])
        /\ calls[c].fetchOptions.agent
        /\ calls[c].url = <<"https://", "staging", ".authservices.satispay.com",
                            "/g_business/v1/payments?limit=1">>
        /\ getEnv = "production"

\* the store holds the key pair and the key id of exchange n: the pair
\* generateKeys returned to it and the key id the server issued for its
\* public key
StoreOf(n) ==
    /\ privateKey = GeneratedPrivateKeys[n]
    /\ publicKey = GeneratedPublicKeys[n]
    /\ keyId = IssuedKeyIds[n]

\* C29: with calls of authenticateWithToken interleaved in any way and no
\* call of a setter, the store is at every instant either all unset or holds
\* the private key, the public key and the key id of one and the same
\* completed exchange; it never holds the key pair of one call with the
\* key_id returned to another.
C29_StoreFromOneExchange ==
    \/ privateKey = Null /\ publicKey = Null /\ keyId = Null
    \/ \E n \in 1..generated : StoreOf(n)

\* the store holds the key pair of the second exchange with the key id issued
\* to the first
C29_Mixed ==
    /\ privateKey = GeneratedPrivateKeys[2]
    /\ publicKey = GeneratedPublicKeys[2]
    /\ keyId = IssuedKeyIds[1]

\* the URL of a request put together while the environment is staging
StagingUrl(path) == <<"https://", "staging", ".authservices.satispay.com", path>>

\* C30: fetch gets an agent (rejectUnauthorized: false) for a request only if
\* the environment the request read was staging: request goes on to import
\* https only in a step in which getEnv() is staging, the agent is attached
\* only after that import, a request with an agent is one whose URL was put
\* together for staging in that same step, and no call of setEnv or setSandbox
\* before, between or after these steps attaches or removes an agent.
C30_AgentOnlyForStagingRead ==
    /\ [](\A c \in DOMAIN calls :
             /\ calls[c].fetchOptions.agent =>
                   (ReachedTransport(calls[c]) /\ calls[c].url = StagingUrl(calls[c].path))
             /\ calls[c].pc = "https" => calls[c].url = StagingUrl(calls[c].path))
    /\ [][\A c \in DOMAIN calls :
             /\ (calls'[c].pc = "https" /\ calls[c].pc # "https") => getEnv = "staging"
             /\ (calls'[c].fetchOptions.agent /\ ~calls[c].fetchOptions.agent) =>
                   calls[c].pc = "https"
             /\ (calls[c].pc = "importing" /\ calls'[c].pc = "fetching") =>
                   ~calls'[c].fetchOptions.agent
             /\ ((\E v \in AnyEnvironments : setEnv(v)) \/ (\E b \in BOOLEAN : setSandbox(b))) =>
                   calls'[c] = calls[c]]_vars

\* a request read staging and is in flight with the agent while the
\* environment is test, and another, which read test, is in flight without
C30_Witness ==
    /\ getEnv = "test"
    /\ \E c, d \in DOMAIN calls :
          /\ calls[c].pc = "fetching" /\ calls[c].fetchOptions.agent
          /\ calls[d].pc = "fetching" /\ ~calls[d].fetchOptions.agent
          /\ calls[d].url = <<"https://", "test", ".authservices.satispay.com", calls[d].path>>

====
